---- MODULE Spec2Model ----
(***************************************************************************)
(* The MEA movie view of realtime512: the recording data client            *)
(* (MEAMovieClient), the playback clock kept by MEAMovieView and the       *)
(* frame / spike-overlay state kept by MEAMovieCanvas.                     *)
(*                                                                         *)
(* Units.  Wall-clock time (Date.now()) is in milliseconds.  Data time     *)
(* (seconds in the source) is counted in units of 1e-7 s, and a playback   *)
(* speed in units of 1e-4, so that every value the source computes with    *)
(* the speeds of PLAYBACK_SPEEDS is an integer.                            *)
(***************************************************************************)
EXTENDS Integers, Sequences, FiniteSets, Bags, TLC

\* null / undefined: of a number (every time of the model is >= 0), of a
\* message, of a client object and of a frame
NULL == 0 - 1
NoError == "null"
NoClient == [store |-> "null"]
NoFrame == [store |-> "null"]

Min(a, b) == IF a <= b THEN a ELSE b
Max(a, b) == IF a >= b THEN a ELSE b

\* Data-time units per second, and speed units per 1x.
TimeUnitsPerSec == 10 ^ 7
SpeedUnitsPerOne == 10 ^ 4
\* data-time units per millisecond of wall clock at one speed unit:
\* (ms / 1000) * (speed / 1e4) seconds = ms * speed * 1e-7 s
UnitsPerMsAtUnitSpeed == TimeUnitsPerSec \div (1000 * SpeedUnitsPerOne)

\* MEAMovieView.tsx:13-16 (speeds times 1e4)
PLAYBACK_SPEEDS == {1, 5, 10, 50, 100, 500, 1000, 5000, 10000, 20000, 50000, 100000}
DEFAULT_PLAYBACK_SPEED == 10

\* MEAMovieCanvas: SPIKE_PERSISTENCE_DURATION_SEC * 1000
SPIKE_PERSISTENCE_DURATION_MS == 500

\* rewind step of handleRewindOneMs: 0.001 s, in data-time units
REWIND_STEP == 10000

(***************************************************************************)
(* Bounds of the model.                                                    *)
(***************************************************************************)
\* the wall clock advances at most this many steps
MaxTicks == 3
\* at most this many frame fetches are in flight at once
MaxPending == 2
\* at most this many client loads are in flight at once
MaxLoads == 2
\* the store's request log holds at most this many requests
MaxRequests == 2
\* a client reads its store's layout dataset at most this many times
MaxCoordReads == 2

\* the steps the wall clock advances by (ms)
TickSteps == {SPIKE_PERSISTENCE_DURATION_MS \div 2}
MaxNow == MaxTicks * (SPIKE_PERSISTENCE_DURATION_MS \div 2)
\* the speeds the user picks from in the model: 0.001x and 0.01x
SpeedChoices == {DEFAULT_PLAYBACK_SPEED, 100}

(***************************************************************************)
(* The chunked array stores (zarr groups) the view is given.  A missing    *)
(* attribute (undefined in the source) is a key outside DOMAIN attrs.      *)
(***************************************************************************)
StoreA ==
  [ id |-> "A",
    attrs |-> [ num_timepoints |-> 4, num_channels |-> 2,
                sampling_frequency_hz |-> 1000, start_time_sec |-> 20000,
                data_min |-> -100, data_max |-> 60, data_median |-> 0,
                num_spikes |-> 3 ],
    datasets |-> {"raw_data", "electrode_coords",
                  "spike_channel_indices", "spike_frame_indices"},
    spike_frame_indices |-> <<1, 2, 2>>,
    spike_channel_indices |-> <<0, 0, 1>> ]

StoreB ==
  [ id |-> "B",
    attrs |-> [ num_timepoints |-> 2, num_channels |-> 2,
                sampling_frequency_hz |-> 1000, start_time_sec |-> 0,
                data_min |-> -10, data_max |-> 10, data_median |-> 0 ],
    datasets |-> {"raw_data", "electrode_coords"},
    spike_frame_indices |-> <<>>,
    spike_channel_indices |-> <<>> ]

\* the recording of the end-to-end scenarios: 20000 samples at 20 kHz from 0 s
StoreD ==
  [ id |-> "D",
    attrs |-> [ num_timepoints |-> 20000, num_channels |-> 4,
                sampling_frequency_hz |-> 20000, start_time_sec |-> 0,
                data_min |-> -10, data_max |-> 10, data_median |-> 0,
                num_spikes |-> 1 ],
    datasets |-> {"raw_data", "electrode_coords",
                  "spike_channel_indices", "spike_frame_indices"},
    spike_frame_indices |-> <<100>>,
    spike_channel_indices |-> <<3>> ]

\* the stores the view is switched between
Stores == {StoreA, StoreB}
\* the stores clients are created of for direct calls
ClientStores == {StoreA, StoreB, StoreD}

\* store A with one attribute absent, and with one dataset absent
WithoutAttr(store, a) ==
  [store EXCEPT !.id = a,
                !.attrs = [k \in DOMAIN store.attrs \ {a} |-> store.attrs[k]]]
WithoutDataset(store, d) ==
  [store EXCEPT !.id = d, !.datasets = store.datasets \ {d}]
SpikeDatasets == {"spike_channel_indices", "spike_frame_indices"}
FaultyStores ==
  {WithoutAttr(StoreA, a) : a \in DOMAIN StoreA.attrs \ {"num_spikes"}}
    \cup {WithoutDataset(StoreA, d) : d \in {"raw_data"} \cup SpikeDatasets}
\* store A without its spike count: no spike array is read
StoreNoSpikeCount == WithoutAttr(StoreA, "num_spikes")
\* store A whose spike count covers the first two entries of its spike
\* arrays only, and store A with the spike (frame 1, channel 0) stored twice
StoreFewerSpikes ==
  [StoreA EXCEPT !.id = "fewer", !.attrs.num_spikes = 2]
StoreTwiceSpike ==
  [StoreA EXCEPT !.id = "twice",
                 !.spike_frame_indices = <<1, 1, 2>>,
                 !.spike_channel_indices = <<0, 0, 1>>]
\* store A without its electrode layout (create does not read the layout)
StoreNoLayout == WithoutDataset(StoreA, "electrode_coords")
\* the stores whose clients are asked for the electrode layout
LayoutStores == {StoreA, StoreNoLayout}
LayoutIds == {store.id : store \in LayoutStores}
\* the stores a view is given when its loading is examined
LoadStores == Stores \cup FaultyStores \cup {StoreNoSpikeCount}
\* the stores whose clients are asked for spiking channels
SpikeStores ==
  ClientStores \cup {StoreNoSpikeCount, StoreFewerSpikes, StoreTwiceSpike}
AllStores == LoadStores \cup SpikeStores \cup LayoutStores

(***************************************************************************)
(* MEAMovieClient                                                          *)
(***************************************************************************)
RequiredAttrs ==
  {"num_timepoints", "num_channels", "sampling_frequency_hz",
   "start_time_sec", "data_min", "data_max", "data_median"}

\* mutant: every entry of the arrays is taken, whatever the spike count
loadSpikeData_AllEntries(store, numSpikes) ==
  LET frames == store.spike_frame_indices
      chans == store.spike_channel_indices
      keys == {frames[i] : i \in 1..Len(frames)}
  IN  [f \in keys |-> {chans[i] : i \in {j \in 1..Len(frames) : frames[j] = f}}]

\* #loadSpikeData: the frame -> channel-set map built from the two arrays
loadSpikeData(store, numSpikes) ==
  LET frames == store.spike_frame_indices
      chans == store.spike_channel_indices
      keys == {frames[i] : i \in 1..numSpikes}
  IN  [f \in keys |-> {chans[i] : i \in {j \in 1..numSpikes : frames[j] = f}}]

\* mutant: the spike arrays are not required
create_SpikeArraysOptional(store) ==
  LET attrs == store.attrs
      numSpikes == IF "num_spikes" \in DOMAIN attrs THEN attrs.num_spikes ELSE 0
  IN  IF "raw_data" \notin store.datasets
        THEN [ok |-> FALSE, error |-> "No raw_data dataset found"]
      ELSE IF \E a \in RequiredAttrs : a \notin DOMAIN attrs
        THEN [ok |-> FALSE, error |-> "Missing required attributes in zarr group"]
      ELSE [ok |-> TRUE,
            client |->
              [ store |-> store.id,
                numTimepoints |-> attrs.num_timepoints,
                numChannels |-> attrs.num_channels,
                samplingFrequencyHz |-> attrs.sampling_frequency_hz,
                startTimeSec |-> attrs.start_time_sec,
                dataMin |-> attrs.data_min,
                dataMax |-> attrs.data_max,
                dataMedian |-> attrs.data_median,
                numSpikes |-> numSpikes,
                hasSpikesByFrame |-> numSpikes > 0,
                spikesByFrame |-> IF numSpikes > 0
                                    THEN loadSpikeData(store, numSpikes)
                                    ELSE <<>> ]]

\* MEAMovieClient.create: [ok |-> TRUE, client |-> ...] or [ok |-> FALSE, error |-> ...]
create(store) ==
  LET attrs == store.attrs
      numSpikes == IF "num_spikes" \in DOMAIN attrs THEN attrs.num_spikes ELSE 0
  IN  IF "raw_data" \notin store.datasets
        THEN [ok |-> FALSE, error |-> "No raw_data dataset found"]
      ELSE IF \E a \in RequiredAttrs : a \notin DOMAIN attrs
        THEN [ok |-> FALSE, error |-> "Missing required attributes in zarr group"]
      ELSE IF numSpikes > 0 /\ "spike_channel_indices" \notin store.datasets
        THEN [ok |-> FALSE, error |-> "No spike_channel_indices dataset found"]
      ELSE IF numSpikes > 0 /\ "spike_frame_indices" \notin store.datasets
        THEN [ok |-> FALSE, error |-> "No spike_frame_indices dataset found"]
      ELSE [ok |-> TRUE,
            client |->
              [ store |-> store.id,
                numTimepoints |-> attrs.num_timepoints,
                numChannels |-> attrs.num_channels,
                samplingFrequencyHz |-> attrs.sampling_frequency_hz,
                startTimeSec |-> attrs.start_time_sec,
                dataMin |-> attrs.data_min,
                dataMax |-> attrs.data_max,
                dataMedian |-> attrs.data_median,
                numSpikes |-> numSpikes,
                hasSpikesByFrame |-> numSpikes > 0,
                spikesByFrame |-> IF numSpikes > 0
                                    THEN loadSpikeData(store, numSpikes)
                                    ELSE <<>> ]]

\* the client create() returns for each store it succeeds on
ClientOf ==
  [id \in {store.id : store \in {st \in AllStores : create(st).ok}} |->
     create(CHOOSE store \in AllStores : store.id = id).client]

\* 1 / samplingFrequencyHz in data-time units (the sampling frequencies of
\* the model divide TimeUnitsPerSec, so the quotient is exact)
samplePeriod(cl) == TimeUnitsPerSec \div cl.samplingFrequencyHz

endTimeSec(cl) == cl.startTimeSec + cl.numTimepoints * samplePeriod(cl)

\* mutant: the index is taken as one-based
getTimeFromIndex_OneBased(cl, timeIndex) ==
  cl.startTimeSec + (timeIndex + 1) * samplePeriod(cl)

getTimeFromIndex(cl, timeIndex) == cl.startTimeSec + timeIndex * samplePeriod(cl)

\* mutant: the rounded index is not clamped
getIndexFromTime_NoClamp(cl, timeSec) ==
  (2 * (timeSec - cl.startTimeSec) + samplePeriod(cl)) \div (2 * samplePeriod(cl))

\* mutant: the quotient is truncated, not rounded
getIndexFromTime_Truncate(cl, timeSec) ==
  LET index == (timeSec - cl.startTimeSec) \div samplePeriod(cl)
  IN  Max(0, Min(cl.numTimepoints - 1, index))

\* Math.round(x) is floor(x + 1/2); x = (timeSec - startTimeSec) / samplePeriod
getIndexFromTime(cl, timeSec) ==
  LET index == (2 * (timeSec - cl.startTimeSec) + samplePeriod(cl))
                 \div (2 * samplePeriod(cl))
  IN  Max(0, Min(cl.numTimepoints - 1, index))

\* mutant: no channel is reported for any frame
getSpikingChannels_None(cl, frameIndex) == {}

getSpikingChannels(cl, frameIndex) ==
  IF ~cl.hasSpikesByFrame THEN {}
  ELSE IF frameIndex \in DOMAIN cl.spikesByFrame THEN cl.spikesByFrame[frameIndex]
  ELSE {}

\* mutant: the upper bound is off by one
getFrameData_OffByOne(cl, timeIndex) ==
  IF timeIndex < 0 \/ timeIndex > cl.numTimepoints
    THEN [ok |-> FALSE, error |-> "out of range", requests |-> <<>>]
    ELSE [ok |-> TRUE,
          requests |-> << [rows |-> <<timeIndex, timeIndex + 1>>,
                           cols |-> <<0, cl.numChannels>>] >>]

\* getFrameData: the out-of-range error, or the one slice request it issues
getFrameData(cl, timeIndex) ==
  IF timeIndex < 0 \/ timeIndex >= cl.numTimepoints
    THEN [ok |-> FALSE, error |-> "out of range", requests |-> <<>>]
    ELSE [ok |-> TRUE,
          requests |-> << [rows |-> <<timeIndex, timeIndex + 1>>,
                           cols |-> <<0, cl.numChannels>>] >>]


(***************************************************************************)
(* The stores of the firing-rate / amplitude view and of the cluster       *)
(* separation view.  Screen lengths are in units of 0.1 px.                *)
(***************************************************************************)
\* three frames of two electrodes: the markers of frame 0 are smaller than
\* the minimum hit radius, those of frames 1 and 2 are larger
RatesStoreA ==
  [ id |-> "ratesA",
    attrs |-> [ num_frames |-> 3, num_channels |-> 2 ],
    datasets |-> {"electrode_coords", "mean_firing_rates", "mean_spike_amplitudes"},
    electrode_x |-> <<0, 60>>,
    mean_firing_rates |-> <<0, 100, 300, 100, 150, 0>>,
    mean_spike_amplitudes |-> <<0, 20, 50, 20, 30, 0>> ]

\* one frame of three electrodes, the first two so close that their hit
\* areas overlap
RatesStoreB ==
  [ id |-> "ratesB",
    attrs |-> [ num_frames |-> 1, num_channels |-> 3 ],
    datasets |-> {"electrode_coords", "mean_firing_rates", "mean_spike_amplitudes"},
    electrode_x |-> <<0, 20, 200>>,
    mean_firing_rates |-> <<300, 100, 200>>,
    mean_spike_amplitudes |-> <<40, 10, 20>> ]

RatesStores == {RatesStoreA, RatesStoreB}
\* the hoverInfo state of a canvas without a tooltip
NoHover == [channelIndex |-> NULL]
RatesStoreById(id) == CHOOSE store \in RatesStores : store.id = id

ClusterDatasets ==
  {"unit_ids_1", "unit_ids_2", "projection_starts_1", "projection_starts_2",
   "projections_1", "projections_2"}
\* two items, with two and one projections of the first unit
ClusterStoreA ==
  [ id |-> "clusterA", attrs |-> [ num_items |-> 2 ], datasets |-> ClusterDatasets,
    unit_ids_1 |-> <<1, 2>>, unit_ids_2 |-> <<2, 3>>,
    projection_starts_1 |-> <<0, 2, 3>>, projection_starts_2 |-> <<0, 1, 3>>,
    projections_1 |-> <<10, 20, 30>>, projections_2 |-> <<40, 50, 60>> ]
\* a store that lacks one of the datasets
ClusterStoreB ==
  [ id |-> "clusterB", attrs |-> [ num_items |-> 2 ],
    datasets |-> ClusterDatasets \ {"projections_2"},
    unit_ids_1 |-> <<1, 2>>, unit_ids_2 |-> <<2, 3>>,
    projection_starts_1 |-> <<0, 2, 3>>, projection_starts_2 |-> <<0, 1, 3>>,
    projections_1 |-> <<10, 20, 30>>, projections_2 |-> <<>> ]
\* a single item
ClusterStoreC ==
  [ id |-> "clusterC", attrs |-> [ num_items |-> 1 ], datasets |-> ClusterDatasets,
    unit_ids_1 |-> <<5>>, unit_ids_2 |-> <<7>>,
    projection_starts_1 |-> <<0, 1>>, projection_starts_2 |-> <<0, 2>>,
    projections_1 |-> <<15>>, projections_2 |-> <<25, 35>> ]
ClusterStores == {ClusterStoreA, ClusterStoreB, ClusterStoreC}
ClusterIds == {store.id : store \in ClusterStores}
ClusterStoreById(id) == CHOOSE store \in ClusterStores : store.id = id
\* #items before the first getItems, and a client without a load in flight
NoItems == [isNull |-> TRUE]
NoLoad == [active |-> FALSE]

(***************************************************************************)
(* State                                                                   *)
(***************************************************************************)
VARIABLES
  now,                          \* Date.now(), ms
  \* ComponentWrapper / MEAMovieView
  zarrGroup,                    \* internalZarrGroup (the id of the store)
  client, loading, error,
  isPlaying, playbackSpeed,
  playbackStartWallClockTime, playbackStartDataTime,
  currentTime,                  \* timeseries selection context
  animationFrame,               \* an animate callback is registered
  pendingLoads,                 \* bag of the stores whose load() awaits create()
  lastOp,                       \* history: the last operation of the clock
  \* MEAMovieCanvas
  frameData, spikingChannels,
  recentSpikes,                 \* recentSpikesRef: channel -> timestamp
  cleanupTimer,                 \* cleanupTimerRef holds a running interval
  canvasError,
  pendingFrames,                \* bag of the loadFrame closures awaiting getFrameData
  \* calls of a MEAMovieClient made directly
  storeRequests,                \* the slice requests the store has received
  lastCall,                     \* the last call: its arguments and its outcome
  electrodeCoords,              \* #electrodeCoords of each client: NULL, or the
                                \* array the n-th read of the dataset returned
  pendingCoords,                \* the reads each getElectrodeCoords call awaits
  coordsReads,                  \* the reads of each store's layout dataset
  \* MEAFiringRatesAndAmplitudesView
  ratesZarrGroup,               \* internalZarrGroup (the id of the store)
  ratesClient, ratesLoading, ratesError,
  currentFrameIndex,
  ratesPendingLoads,            \* bag of the stores whose load() awaits create()
  \* MEAFiringRatesAndAmplitudesCanvas
  hoverInfo, ratesCanvasError,
  \* ClusterSeparationViewClient, one per store
  clusterItems,                 \* #items: NULL, or the items pushed so far
  clusterLoading                \* a getItems call awaits the store's data

viewVars ==
  <<zarrGroup, client, loading, error, isPlaying, playbackSpeed,
    playbackStartWallClockTime, playbackStartDataTime, currentTime,
    animationFrame, pendingLoads, lastOp>>
canvasVars ==
  <<frameData, spikingChannels, recentSpikes, cleanupTimer, canvasError,
    pendingFrames>>
layoutVars == <<electrodeCoords, pendingCoords, coordsReads>>
ratesVars ==
  <<ratesZarrGroup, ratesClient, ratesLoading, ratesError, currentFrameIndex,
    ratesPendingLoads, hoverInfo, ratesCanvasError>>
clusterVars == <<clusterItems, clusterLoading>>
otherViewVars == <<ratesVars, clusterVars>>
clientVars == <<storeRequests, lastCall, layoutVars, otherViewVars>>
vars == <<now, viewVars, canvasVars, clientVars>>

StoreById(id) == CHOOSE s \in AllStores : s.id = id

\* What lastOp records of an operation of the playback clock: its name and
\* argument, the data time and the wall clock it found, and, for a play that
\* follows a pause, the wall clock of that pause and the data time before it.
Op(name, arg) ==
  [op |-> name, arg |-> arg, t |-> currentTime, w |-> now,
   pausedAt |-> IF name = "play" /\ lastOp.op = "pause" THEN lastOp.w ELSE NULL,
   pausedTime |-> IF name = "play" /\ lastOp.op = "pause" THEN lastOp.t ELSE NULL]

(***************************************************************************)
(* MEAMovieView: what it renders                                           *)
(***************************************************************************)
\* the canvas and the controls are rendered (no early return)
CanvasShown(l, e, c) == ~l /\ e = NoError /\ c # NoClient

\* useMemo currentTimeIndex
currentTimeIndex(c, t) ==
  IF c = NoClient \/ t = NULL THEN 0 ELSE getIndexFromTime(c, t)

\* the props the canvas's loadFrame closure captures
CanvasProps(c, t, p) ==
  [client |-> c, currentTimeIndex |-> currentTimeIndex(c, t), isPlaying |-> p]

\* The cleanup-timer effect of the canvas, run when isPlaying or
\* spikingChannels.length changed: the old interval is cleared, a new one
\* set when playing with tracked spikes.
cleanupTimerEffect(changed, playing, recent, timer) ==
  IF changed THEN playing /\ DOMAIN recent # {} ELSE timer

\* The canvas after a render of the view with the given new state: it is
\* unmounted, mounted afresh, or re-rendered with new props (the loadFrame
\* effect runs again when client, currentTimeIndex or isPlaying changed).
RenderCanvas(l2, e2, c2, t2, p2, newClientObject) ==
  LET was == CanvasShown(loading, error, client)
      shown == CanvasShown(l2, e2, c2)
      oldProps == CanvasProps(client, currentTime, isPlaying)
      newProps == CanvasProps(c2, t2, p2)
      fetch == newClientObject \/ newProps # oldProps
  IN  IF ~shown
        THEN /\ frameData' = NoFrame
             /\ spikingChannels' = {}
             /\ recentSpikes' = <<>>
             /\ cleanupTimer' = FALSE
             /\ canvasError' = NoError
             /\ pendingFrames' = EmptyBag
      ELSE IF ~was
        THEN /\ frameData' = NoFrame
             /\ spikingChannels' = {}
             /\ recentSpikes' = <<>>
             /\ cleanupTimer' = FALSE
             /\ canvasError' = NoError
             /\ pendingFrames' = SetToBag({newProps})
      ELSE /\ fetch => BagCardinality(pendingFrames) < MaxPending
           /\ pendingFrames' =
                IF fetch THEN pendingFrames (+) SetToBag({newProps})
                ELSE pendingFrames
           /\ cleanupTimer' =
                cleanupTimerEffect(p2 # isPlaying, p2, recentSpikes, cleanupTimer)
           /\ UNCHANGED <<frameData, spikingChannels, recentSpikes, canvasError>>

\* mutant: the effect's cleanup does not cancel the requested callback
playbackLoopEffect_NoCancel(p2, c2, s2, w2, d2) ==
  animationFrame \/ (p2 /\ c2 # NoClient /\ w2 # NULL /\ d2 # NULL)

\* The playback-loop effect: when one of its dependencies changed the pending
\* callback is cancelled and a new one requested if playing with an anchor.
playbackLoopEffect(p2, c2, s2, w2, d2) ==
  IF <<p2, c2, s2, w2, d2>> #
       <<isPlaying, client, playbackSpeed,
         playbackStartWallClockTime, playbackStartDataTime>>
    THEN p2 /\ c2 # NoClient /\ w2 # NULL /\ d2 # NULL
    ELSE animationFrame

(***************************************************************************)
(* Init: the view is mounted on a store, its load effect has started.      *)
(***************************************************************************)
InitOn(store) ==
  /\ now = 0
  /\ zarrGroup = store.id
  /\ client = NoClient
  /\ loading = TRUE
  /\ error = NoError
  /\ isPlaying = FALSE
  /\ playbackSpeed = DEFAULT_PLAYBACK_SPEED
  /\ playbackStartWallClockTime = NULL
  /\ playbackStartDataTime = NULL
  /\ currentTime = NULL
  /\ animationFrame = FALSE
  /\ pendingLoads = SetToBag({store.id})
  /\ lastOp = [op |-> "mount", arg |-> NULL, t |-> NULL, w |-> 0,
               pausedAt |-> NULL, pausedTime |-> NULL]
  /\ frameData = NoFrame
  /\ spikingChannels = {}
  /\ recentSpikes = <<>>
  /\ cleanupTimer = FALSE
  /\ canvasError = NoError
  /\ pendingFrames = EmptyBag
  /\ storeRequests = <<>>
  /\ lastCall = [fn |-> "none"]
  /\ electrodeCoords = [id \in LayoutIds |-> NULL]
  /\ pendingCoords = [id \in LayoutIds |-> {}]
  /\ coordsReads = [id \in LayoutIds |-> 0]
  /\ ratesZarrGroup = RatesStoreA.id
  /\ ratesClient = NoClient
  /\ ratesLoading = TRUE
  /\ ratesError = NoError
  /\ currentFrameIndex = 0
  /\ ratesPendingLoads = SetToBag({RatesStoreA.id})
  /\ hoverInfo = NoHover
  /\ ratesCanvasError = NoError
  /\ clusterItems = [id \in ClusterIds |-> NoItems]
  /\ clusterLoading = [id \in ClusterIds |-> NoLoad]

\* the view is mounted on store A
Init == InitOn(StoreA)
\* the view is mounted on the 20000-sample recording of the scenarios
InitScenario == InitOn(StoreD)

(***************************************************************************)
(* MEAMovieView: loading the client                                        *)
(***************************************************************************)
\* ComponentWrapper's onDataChange callback gives the view a new zarr group;
\* the load effect runs again: setLoading(true), setError(null), and create()
\* of the new group is awaited.  Nothing cancels the loads already started.
onDataChangeView(store) ==
  /\ BagCardinality(pendingLoads) < MaxLoads
  /\ zarrGroup' = store.id
  /\ loading' = TRUE
  /\ error' = NoError
  /\ pendingLoads' = pendingLoads (+) SetToBag({store.id})
  /\ UNCHANGED <<clientVars, now, client, isPlaying, playbackSpeed,
                 playbackStartWallClockTime, playbackStartDataTime,
                 currentTime, animationFrame>>

onDataChange(store) ==
  /\ onDataChangeView(store)
  /\ UNCHANGED lastOp
  /\ RenderCanvas(TRUE, NoError, client, currentTime, isPlaying, FALSE)

\* The continuation of load() after `await MEAMovieClient.create(zarrGroup)`,
\* for the group the effect was started with.
loadView(id) ==
  /\ BagIn(id, pendingLoads)
  /\ pendingLoads' = pendingLoads (-) SetToBag({id})
  /\ LET r == create(StoreById(id))
     IN  IF r.ok
           THEN /\ client' = r.client
                /\ currentTime' = r.client.startTimeSec
                /\ UNCHANGED error
           ELSE /\ error' = r.error
                /\ UNCHANGED <<client, currentTime>>
  /\ loading' = FALSE
  /\ animationFrame' =
       playbackLoopEffect(isPlaying, client', playbackSpeed,
                          playbackStartWallClockTime, playbackStartDataTime)
  /\ UNCHANGED <<clientVars, now, zarrGroup, isPlaying, playbackSpeed,
                 playbackStartWallClockTime, playbackStartDataTime>>

load(id) ==
  /\ loadView(id)
  /\ UNCHANGED lastOp
  /\ RenderCanvas(FALSE, error', client', currentTime', isPlaying, client' # NoClient)

(***************************************************************************)
(* MEAMovieView: the playback clock                                        *)
(***************************************************************************)
\* mutant: the elapsed time is taken with the wrong sign
animateNewDataTime_Backwards(startData, startWall, wallClock, speed) ==
  startData - (wallClock - startWall) * speed * UnitsPerMsAtUnitSpeed

\* animate: the data time extrapolated from the anchor
animateNewDataTime(startData, startWall, wallClock, speed) ==
  startData + (wallClock - startWall) * speed * UnitsPerMsAtUnitSpeed

\* mutant: the end of the data is never detected
animateAtEnd_Never(cl, newDataTime) == FALSE

\* mutant: the end test is strict
animateAtEnd_Strict(cl, newDataTime) == newDataTime > endTimeSec(cl)

\* animate: "Stop at end (no loop)"
animateAtEnd(cl, newDataTime) == newDataTime >= endTimeSec(cl)

\* mutant: no restart at the end
playStartDataTime_NoRestart(cl, cur) == cur

\* mutant: playback always restarts from the start
playStartDataTime_AlwaysRestart(cl, cur) == cl.startTimeSec

\* handlePlayPause: the data time playback starts from
playStartDataTime(cl, cur) ==
  IF cur >= endTimeSec(cl) THEN cl.startTimeSec ELSE cur

\* mutant: the rewind is not floored at the start of the recording
rewindTime_NoFloor(cl, cur) == cur - REWIND_STEP

\* handleRewindOneMs: the time it seeks to
rewindTime(cl, cur) == Max(cur - REWIND_STEP, cl.startTimeSec)

\* the callback requested with requestAnimationFrame runs
animateView ==
  /\ animationFrame
  /\ LET newDataTime ==
           animateNewDataTime(playbackStartDataTime, playbackStartWallClockTime,
                              now, playbackSpeed)
     IN  IF animateAtEnd(client, newDataTime)
           THEN /\ isPlaying' = FALSE
                /\ currentTime' = endTimeSec(client)
                /\ playbackStartWallClockTime' = NULL
                /\ playbackStartDataTime' = NULL
                /\ animationFrame' = FALSE
           ELSE /\ currentTime' = newDataTime
                /\ animationFrame' = TRUE
                /\ UNCHANGED <<isPlaying, playbackStartWallClockTime,
                               playbackStartDataTime>>
  /\ UNCHANGED <<clientVars, now, zarrGroup, client, loading, error, playbackSpeed,
                 pendingLoads>>

animate ==
  /\ animateView
  /\ UNCHANGED lastOp
  /\ RenderCanvas(loading, error, client, currentTime', isPlaying', FALSE)

handlePlayPauseView ==
  /\ CanvasShown(loading, error, client)
  /\ currentTime # NULL
  /\ IF isPlaying
       THEN /\ isPlaying' = FALSE
            /\ playbackStartWallClockTime' = NULL
            /\ playbackStartDataTime' = NULL
            /\ UNCHANGED currentTime
       ELSE /\ currentTime' = playStartDataTime(client, currentTime)
            /\ playbackStartWallClockTime' = now
            /\ playbackStartDataTime' = playStartDataTime(client, currentTime)
            /\ isPlaying' = TRUE
  /\ animationFrame' =
       playbackLoopEffect(isPlaying', client, playbackSpeed,
                          playbackStartWallClockTime', playbackStartDataTime')
  /\ UNCHANGED <<clientVars, now, zarrGroup, client, loading, error, playbackSpeed,
                 pendingLoads>>

handlePlayPause ==
  /\ handlePlayPauseView
  /\ UNCHANGED lastOp
  /\ RenderCanvas(loading, error, client, currentTime', isPlaying', FALSE)

\* mutant: the anchor is never moved
reanchor_Never(newTime) ==
  UNCHANGED <<playbackStartWallClockTime, playbackStartDataTime>>

\* mutant: the anchor's data time is moved, its wall clock is not
reanchor_KeepWallClock(newTime) ==
  IF isPlaying
    THEN /\ playbackStartWallClockTime' = playbackStartWallClockTime
         /\ playbackStartDataTime' = newTime
    ELSE UNCHANGED <<playbackStartWallClockTime, playbackStartDataTime>>

\* the anchor after a seek to newTime, or after a speed change at newTime
reanchor(newTime) ==
  IF isPlaying
    THEN /\ playbackStartWallClockTime' = now
         /\ playbackStartDataTime' = newTime
    ELSE UNCHANGED <<playbackStartWallClockTime, playbackStartDataTime>>

\* the time slider (min 0, max numTimepoints - 1) is moved to timeIndex
handleTimeChangeView(timeIndex) ==
  /\ CanvasShown(loading, error, client)
  /\ timeIndex \in 0..(client.numTimepoints - 1)
  /\ timeIndex # currentTimeIndex(client, currentTime)
  /\ currentTime' = getTimeFromIndex(client, timeIndex)
  /\ reanchor(getTimeFromIndex(client, timeIndex))
  /\ animationFrame' =
       playbackLoopEffect(isPlaying, client, playbackSpeed,
                          playbackStartWallClockTime', playbackStartDataTime')
  /\ UNCHANGED <<clientVars, now, zarrGroup, client, loading, error, isPlaying,
                 playbackSpeed, pendingLoads>>

handleTimeChange(timeIndex) ==
  /\ handleTimeChangeView(timeIndex)
  /\ UNCHANGED lastOp
  /\ RenderCanvas(loading, error, client, currentTime', isPlaying, FALSE)

handleRewindOneMsView ==
  /\ CanvasShown(loading, error, client)
  /\ currentTime # NULL
  /\ currentTime' = rewindTime(client, currentTime)
  /\ reanchor(rewindTime(client, currentTime))
  /\ animationFrame' =
       playbackLoopEffect(isPlaying, client, playbackSpeed,
                          playbackStartWallClockTime', playbackStartDataTime')
  /\ UNCHANGED <<clientVars, now, zarrGroup, client, loading, error, isPlaying,
                 playbackSpeed, pendingLoads>>

handleRewindOneMs ==
  /\ handleRewindOneMsView
  /\ UNCHANGED lastOp
  /\ RenderCanvas(loading, error, client, currentTime', isPlaying, FALSE)

\* the speed select is changed to newSpeed
handleSpeedChangeView(newSpeed) ==
  /\ CanvasShown(loading, error, client)
  /\ newSpeed # playbackSpeed
  /\ playbackSpeed' = newSpeed
  /\ IF currentTime # NULL
       THEN reanchor(currentTime)
       ELSE UNCHANGED <<playbackStartWallClockTime, playbackStartDataTime>>
  /\ animationFrame' =
       playbackLoopEffect(isPlaying, client, newSpeed,
                          playbackStartWallClockTime', playbackStartDataTime')
  /\ UNCHANGED <<clientVars, now, zarrGroup, client, loading, error, isPlaying,
                 currentTime, pendingLoads>>

handleSpeedChange(newSpeed) ==
  /\ handleSpeedChangeView(newSpeed)
  /\ UNCHANGED lastOp
  /\ RenderCanvas(loading, error, client, currentTime, isPlaying, FALSE)

\* The view is unmounted: the cleanup of the playback-loop effect cancels the
\* requested callback.  The component's state is kept as it was (nothing
\* reads it again); the continuations of the loads still awaited set the
\* state of an unmounted component, which has no effect.
Mounted == lastOp.op # "unmount"

unmountView ==
  /\ Mounted
  /\ animationFrame' = FALSE
  /\ pendingLoads' = EmptyBag
  /\ UNCHANGED <<clientVars, now, zarrGroup, client, loading, error, isPlaying,
                 playbackSpeed, playbackStartWallClockTime,
                 playbackStartDataTime, currentTime>>

\* the wall clock advances
Tick(d) ==
  /\ now + d <= MaxNow
  /\ now' = now + d
  /\ UNCHANGED <<clientVars, viewVars, canvasVars>>

(***************************************************************************)
(* MEAMovieCanvas                                                          *)
(***************************************************************************)
\* mutant: a channel that spikes again gets a new timestamp
trackSpikes_Restart(recent, currentSpikes, wallClock) ==
  [c \in DOMAIN recent \cup currentSpikes |->
     IF c \in currentSpikes THEN wallClock ELSE recent[c]]

\* loadFrame while playing: "Add new spikes with current wall clock timestamp"
trackSpikes(recent, currentSpikes, wallClock) ==
  [c \in DOMAIN recent \cup currentSpikes |->
     IF c \in DOMAIN recent THEN recent[c] ELSE wallClock]

\* mutant: an entry as old as the window is expired too
spikeExpired_AtWindow(timestamp, wallClock) ==
  wallClock - timestamp >= SPIKE_PERSISTENCE_DURATION_MS

\* updateSpikingChannels: an entry is expired when older than the window
spikeExpired(timestamp, wallClock) ==
  wallClock - timestamp > SPIKE_PERSISTENCE_DURATION_MS

\* updateSpikingChannels: the map without the expired entries
unexpiredSpikes(recent, wallClock) ==
  [c \in {d \in DOMAIN recent : ~spikeExpired(recent[d], wallClock)} |-> recent[c]]

\* opacity units per 1, and the opacity 0.9 of a fresh ring
OpacityUnitsPerOne == 10 ^ 4
FullOpacity == (9 * OpacityUnitsPerOne) \div 10

\* mutant: the ring fades whether or not playback runs
ringOpacity_FadeWhenPaused(playing, spikeTimestamp, wallClock) ==
  IF spikeTimestamp # NULL
    THEN (FullOpacity * (SPIKE_PERSISTENCE_DURATION_MS - (wallClock - spikeTimestamp)))
           \div SPIKE_PERSISTENCE_DURATION_MS
    ELSE FullOpacity

\* The opacity of the ring drawn around a spiking channel: 0.9, or while
\* playing, for a channel with a timestamp (NULL: the ref has none),
\* 0.9 * (1 - age / persistenceDurationMs).
ringOpacity(playing, spikeTimestamp, wallClock) ==
  IF playing /\ spikeTimestamp # NULL
    THEN (FullOpacity * (SPIKE_PERSISTENCE_DURATION_MS - (wallClock - spikeTimestamp)))
           \div SPIKE_PERSISTENCE_DURATION_MS
    ELSE FullOpacity

\* the rings the render effect draws in the current state: one around each
\* channel of spikingChannels
spikeRings ==
  [c \in spikingChannels |->
     ringOpacity(isPlaying,
                 IF c \in DOMAIN recentSpikes THEN recentSpikes[c] ELSE NULL,
                 now)]

\* The continuation of loadFrame after `await client.getFrameData(index)`, for
\* the closure f = (client, currentTimeIndex, isPlaying) of the render that
\* started it.
loadFrame(f) ==
  /\ BagIn(f, pendingFrames)
  /\ getFrameData(f.client, f.currentTimeIndex).ok
  /\ pendingFrames' = pendingFrames (-) SetToBag({f})
  /\ frameData' = [store |-> f.client.store, index |-> f.currentTimeIndex]
  /\ LET currentSpikes == getSpikingChannels(f.client, f.currentTimeIndex)
     IN  IF f.isPlaying
           THEN /\ recentSpikes' =
                     unexpiredSpikes(trackSpikes(recentSpikes, currentSpikes, now), now)
                /\ spikingChannels' = DOMAIN recentSpikes'
           ELSE /\ spikingChannels' = currentSpikes
                /\ recentSpikes' = <<>>
  /\ cleanupTimer' =
       cleanupTimerEffect(Cardinality(spikingChannels') # Cardinality(spikingChannels),
                          isPlaying, recentSpikes', cleanupTimer)
  /\ UNCHANGED <<clientVars, now, viewVars, canvasError>>

\* getFrameData rejects (index out of range, or the store's read fails):
\* the catch branch of loadFrame
loadFrameFailed(f) ==
  /\ BagIn(f, pendingFrames)
  /\ pendingFrames' = pendingFrames (-) SetToBag({f})
  /\ canvasError' = "Error loading frame data"
  /\ UNCHANGED <<clientVars, now, viewVars, frameData, spikingChannels, recentSpikes,
                 cleanupTimer>>

\* the interval set by the cleanup-timer effect fires: updateSpikingChannels()
cleanupTimerFired ==
  /\ cleanupTimer
  /\ recentSpikes' = unexpiredSpikes(recentSpikes, now)
  /\ spikingChannels' = DOMAIN recentSpikes'
  /\ cleanupTimer' =
       cleanupTimerEffect(Cardinality(spikingChannels') # Cardinality(spikingChannels),
                          isPlaying, recentSpikes', cleanupTimer)
  /\ UNCHANGED <<clientVars, now, viewVars, frameData, canvasError, pendingFrames>>

(***************************************************************************)
(* Direct calls of a client                                                *)
(***************************************************************************)
\* the frame indices a caller passes: around both ends of the recording
FrameIndexInputs(cl) ==
  {0 - 1, 0, 1, cl.numTimepoints - 2, cl.numTimepoints - 1,
   cl.numTimepoints, cl.numTimepoints + 1}

\* client.getFrameData(timeIndex) is called: the store receives the requests
\* the call issues
callGetFrameData(cl, timeIndex) ==
  LET r == getFrameData(cl, timeIndex)
  IN  /\ Len(storeRequests) + Len(r.requests) <= MaxRequests
      /\ storeRequests' = storeRequests \o r.requests
      /\ lastCall' = [fn |-> "getFrameData", client |-> cl, timeIndex |-> timeIndex,
                      ok |-> r.ok, before |-> Len(storeRequests)]
      /\ UNCHANGED <<now, viewVars, canvasVars, otherViewVars, layoutVars>>

\* client.getSpikingChannels(frameIndex) is called
callGetSpikingChannels(cl, frameIndex) ==
  /\ lastCall' = [fn |-> "getSpikingChannels", client |-> cl,
                  frameIndex |-> frameIndex,
                  result |-> getSpikingChannels(cl, frameIndex)]
  /\ UNCHANGED <<now, viewVars, canvasVars, otherViewVars, storeRequests, layoutVars>>

\* client.getElectrodeCoords() is called on the client of a store: with the
\* cache filled it returns the cached array; with the dataset absent it
\* throws; otherwise it reads the dataset and awaits the data.
callGetElectrodeCoords(id) ==
  /\ IF electrodeCoords[id] # NULL
       THEN /\ lastCall' = [fn |-> "getElectrodeCoords", client |-> id,
                            ok |-> TRUE, result |-> electrodeCoords[id]]
            /\ UNCHANGED <<pendingCoords, coordsReads>>
     ELSE IF "electrode_coords" \notin StoreById(id).datasets
       THEN /\ lastCall' = [fn |-> "getElectrodeCoords", client |-> id,
                            ok |-> FALSE, result |-> NULL]
            /\ UNCHANGED <<pendingCoords, coordsReads>>
     ELSE /\ coordsReads[id] < MaxCoordReads
          /\ coordsReads' = [coordsReads EXCEPT ![id] = @ + 1]
          /\ pendingCoords' = [pendingCoords EXCEPT ![id] = @ \cup {coordsReads[id] + 1}]
          /\ lastCall' = [fn |-> "getElectrodeCoords:read", client |-> id,
                          ok |-> TRUE, result |-> NULL]
  /\ UNCHANGED <<now, viewVars, canvasVars, otherViewVars, storeRequests, electrodeCoords>>

\* the data of read n arrived: the awaiting call stores the array in the
\* cache and returns it
returnGetElectrodeCoords(id, n) ==
  /\ n \in pendingCoords[id]
  /\ pendingCoords' = [pendingCoords EXCEPT ![id] = @ \ {n}]
  /\ electrodeCoords' = [electrodeCoords EXCEPT ![id] = n]
  /\ lastCall' = [fn |-> "getElectrodeCoords", client |-> id,
                  ok |-> TRUE, result |-> n]
  /\ UNCHANGED <<now, viewVars, canvasVars, otherViewVars, storeRequests, coordsReads>>

\* the times a caller passes: quarter sample periods around the start, the
\* first quarter and the end of the recording
TimeAnchors(cl) ==
  {cl.startTimeSec,
   cl.startTimeSec + (endTimeSec(cl) - cl.startTimeSec) \div 4,
   endTimeSec(cl)}
TimeInputs(cl) ==
  {a + k * (samplePeriod(cl) \div 4) : a \in TimeAnchors(cl), k \in (0 - 6)..6}

\* client.getIndexFromTime(timeSec) is called
callGetIndexFromTime(cl, timeSec) ==
  /\ lastCall' = [fn |-> "getIndexFromTime", client |-> cl,
                  timeSec |-> timeSec, result |-> getIndexFromTime(cl, timeSec)]
  /\ UNCHANGED <<now, viewVars, canvasVars, otherViewVars, storeRequests, layoutVars>>

\* client.getTimeFromIndex is called with the index getIndexFromTime returned
callGetTimeFromIndex ==
  /\ lastCall.fn = "getIndexFromTime"
  /\ lastCall' = [fn |-> "getTimeFromIndex", client |-> lastCall.client,
                  timeIndex |-> lastCall.result, timeSec |-> lastCall.timeSec,
                  result |-> getTimeFromIndex(lastCall.client, lastCall.result)]
  /\ UNCHANGED <<now, viewVars, canvasVars, otherViewVars, storeRequests, layoutVars>>

(***************************************************************************)
(* Specifications                                                          *)
(***************************************************************************)
\* The playback clock of MEAMovieView on one recording (store A); the canvas
\* is left out: nothing of the view reads the canvas's state.
NextClock ==
  \/ \E id \in {StoreA.id} :
       loadView(id) /\ lastOp' = Op("load", NULL) /\ UNCHANGED canvasVars
  \/ /\ animateView
     /\ lastOp' = Op(IF isPlaying' THEN "animate" ELSE "animateEnd", NULL)
     /\ UNCHANGED canvasVars
  \/ /\ handlePlayPauseView
     /\ lastOp' = Op(IF isPlaying THEN "pause" ELSE "play", NULL)
     /\ UNCHANGED canvasVars
  \/ \E i \in 0..(StoreA.attrs.num_timepoints - 1) :
       handleTimeChangeView(i) /\ lastOp' = Op("seek", i) /\ UNCHANGED canvasVars
  \/ handleRewindOneMsView /\ lastOp' = Op("rewind", NULL) /\ UNCHANGED canvasVars
  \/ \E s \in SpeedChoices :
       handleSpeedChangeView(s) /\ lastOp' = Op("speed", s) /\ UNCHANGED canvasVars
  \/ \E d \in TickSteps : Tick(d)

SpecClock == Init /\ [][NextClock]_vars

\* The playback clock of MEAMovieView until the view is unmounted.
NextTeardown ==
  \/ \E id \in {StoreA.id} :
       /\ Mounted
       /\ loadView(id) /\ lastOp' = Op("load", NULL) /\ UNCHANGED canvasVars
  \/ /\ Mounted
     /\ animateView
     /\ lastOp' = Op(IF isPlaying' THEN "animate" ELSE "animateEnd", NULL)
     /\ UNCHANGED canvasVars
  \/ /\ Mounted
     /\ handlePlayPauseView
     /\ lastOp' = Op(IF isPlaying THEN "pause" ELSE "play", NULL)
     /\ UNCHANGED canvasVars
  \/ \E i \in 0..(StoreA.attrs.num_timepoints - 1) :
       /\ Mounted
       /\ handleTimeChangeView(i) /\ lastOp' = Op("seek", i) /\ UNCHANGED canvasVars
  \/ \E s \in SpeedChoices :
       /\ Mounted
       /\ handleSpeedChangeView(s) /\ lastOp' = Op("speed", s) /\ UNCHANGED canvasVars
  \/ unmountView /\ lastOp' = Op("unmount", NULL) /\ UNCHANGED canvasVars
  \/ \E d \in TickSteps : Tick(d)

SpecTeardown == Init /\ [][NextTeardown]_vars

\* A playback left to itself: the user loads the recording, may seek and
\* choose a speed while paused, and presses play; from then on only the
\* animate callback runs and the wall clock advances until the playback has
\* stopped.  The wall clock is given the time the slowest playback of the
\* whole recording takes.
SlowestSpeed == CHOOSE s \in SpeedChoices : \A r \in SpeedChoices : s <= r
PlaybackWallClockMs ==
  ((endTimeSec(ClientOf[StoreA.id]) - StoreA.attrs.start_time_sec)
     \div (SlowestSpeed * UnitsPerMsAtUnitSpeed))
  + SPIKE_PERSISTENCE_DURATION_MS
MaxPlaybackNow == MaxNow + PlaybackWallClockMs

PlaybackTick(d) ==
  /\ now + d <= MaxNow \/ isPlaying
  /\ now + d <= MaxPlaybackNow
  /\ now' = now + d
  /\ UNCHANGED <<clientVars, viewVars, canvasVars>>

AnimateStep ==
  /\ animateView
  /\ lastOp' = Op(IF isPlaying' THEN "animate" ELSE "animateEnd", NULL)
  /\ UNCHANGED canvasVars

NextPlayback ==
  \/ \E id \in {StoreA.id} :
       loadView(id) /\ lastOp' = Op("load", NULL) /\ UNCHANGED canvasVars
  \/ /\ ~isPlaying
     /\ now <= MaxNow
     /\ handlePlayPauseView
     /\ lastOp' = Op("play", NULL)
     /\ UNCHANGED canvasVars
  \/ \E i \in 0..(StoreA.attrs.num_timepoints - 1) :
       /\ ~isPlaying
       /\ handleTimeChangeView(i) /\ lastOp' = Op("seek", i) /\ UNCHANGED canvasVars
  \/ \E s \in SpeedChoices :
       /\ ~isPlaying
       /\ handleSpeedChangeView(s) /\ lastOp' = Op("speed", s) /\ UNCHANGED canvasVars
  \/ AnimateStep
  \/ \E d \in TickSteps : PlaybackTick(d)

\* the browser keeps calling the requested animate callback, and time passes
SpecPlayback ==
  /\ Init
  /\ [][NextPlayback]_vars
  /\ WF_vars(AnimateStep)
  /\ WF_vars(\E d \in TickSteps : PlaybackTick(d))

\* The view and its canvas on one recording (store A).
Next ==
  \/ \E id \in {StoreA.id} : load(id)
  \/ animate
  \/ handlePlayPause
  \/ \E i \in 0..(StoreA.attrs.num_timepoints - 1) : handleTimeChange(i)
  \/ handleRewindOneMs
  \/ \E s \in SpeedChoices : handleSpeedChange(s)
  \/ \E d \in TickSteps : Tick(d)
  \/ \E f \in BagToSet(pendingFrames) : loadFrame(f)
  \/ \E f \in BagToSet(pendingFrames) : loadFrameFailed(f)
  \/ cleanupTimerFired

Spec == Init /\ [][Next]_vars

\* The view and its canvas on the recording of the scenarios (store D, one
\* spike at frame 100 on channel 3), the user seeking to the spike's frame.
SpikeFrame == StoreD.spike_frame_indices[1]
NextScenario ==
  \/ \E id \in {StoreD.id} : load(id)
  \/ animate
  \/ handlePlayPause
  \/ \E i \in {SpikeFrame} : handleTimeChange(i)
  \/ \E d \in TickSteps : Tick(d)
  \/ \E f \in BagToSet(pendingFrames) : loadFrame(f)
  \/ \E f \in BagToSet(pendingFrames) : loadFrameFailed(f)
  \/ cleanupTimerFired

SpecScenario == InitScenario /\ [][NextScenario]_vars

\* The scenario's view while the user also moves the contrast slider:
\* setContrast re-renders the canvas, whose render effect (contrast is one of
\* its dependencies) repaints the frame and the rings of spikingChannels,
\* reading Date.now() itself.  lastCall records the rings that were drawn.
handleContrastChange ==
  /\ CanvasShown(loading, error, client)
  /\ frameData # NoFrame
  /\ canvasError = NoError
  /\ lastCall' = [fn |-> "drawSpikeRings", rings |-> spikeRings]
  /\ UNCHANGED <<now, viewVars, canvasVars, otherViewVars, storeRequests, layoutVars>>

NextRender ==
  \/ \E id \in {StoreD.id} : load(id)
  \/ animate
  \/ handlePlayPause
  \/ \E i \in {SpikeFrame} : handleTimeChange(i)
  \/ \E d \in TickSteps : Tick(d)
  \/ \E f \in BagToSet(pendingFrames) : loadFrame(f)
  \/ \E f \in BagToSet(pendingFrames) : loadFrameFailed(f)
  \/ cleanupTimerFired
  \/ handleContrastChange

SpecRender == InitScenario /\ [][NextRender]_vars

\* The view while the host switches it between the stores: loads in flight
\* complete in any order (the canvas is left out).
NextLoad ==
  \/ \E store \in Stores :
       /\ onDataChangeView(store)
       /\ lastOp' = Op("onDataChange", NULL)
       /\ UNCHANGED canvasVars
  \/ \E store \in Stores :
       loadView(store.id) /\ lastOp' = Op("load", NULL) /\ UNCHANGED canvasVars
  \/ /\ handlePlayPauseView
     /\ lastOp' = Op(IF isPlaying THEN "pause" ELSE "play", NULL)
     /\ UNCHANGED canvasVars
  \/ /\ animateView
     /\ lastOp' = Op(IF isPlaying' THEN "animate" ELSE "animateEnd", NULL)
     /\ UNCHANGED canvasVars
  \/ \E d \in TickSteps : Tick(d)

SpecLoad == Init /\ [][NextLoad]_vars

\* The view given stores with absent attributes or datasets: each load
\* completes with the outcome of create() on its store.
NextCreate ==
  \/ \E store \in LoadStores :
       /\ onDataChangeView(store)
       /\ lastOp' = Op("onDataChange", NULL)
       /\ UNCHANGED canvasVars
  \/ \E store \in LoadStores :
       loadView(store.id) /\ lastOp' = Op("load", NULL) /\ UNCHANGED canvasVars

SpecCreate == Init /\ [][NextCreate]_vars

\* Clients of the stores, called directly.
NextClient ==
  \/ \E store \in ClientStores :
       LET cl == ClientOf[store.id]
       IN  \E timeIndex \in FrameIndexInputs(cl) : callGetFrameData(cl, timeIndex)
  \/ \E store \in SpikeStores :
       LET cl == ClientOf[store.id]
       IN  \E frameIndex \in FrameIndexInputs(cl) \cup {100} :
             callGetSpikingChannels(cl, frameIndex)
  \/ \E id \in LayoutIds : callGetElectrodeCoords(id)
  \/ \E id \in LayoutIds : \E n \in 1..MaxCoordReads : returnGetElectrodeCoords(id, n)

SpecClient == Init /\ [][NextClient]_vars

\* The time / index conversions of the clients, called directly.
NextTime ==
  \/ \E store \in ClientStores :
       LET cl == ClientOf[store.id]
       IN  \E timeSec \in TimeInputs(cl) : callGetIndexFromTime(cl, timeSec)
  \/ callGetTimeFromIndex

SpecTime == Init /\ [][NextTime]_vars

(***************************************************************************)
(* Claims about the playback clock (SpecClock)                             *)
(***************************************************************************)
\* a step of the named operations of the clock (the wall clock stands still
\* while a handler runs; lastOp' names the handler that ran)
ClockStep(ops) == now' = now /\ lastOp'.op \in ops

AdvanceStep == ClockStep({"animate", "animateEnd"})

\* anchorDataTime + (now - anchorWallClock) * speed, from the state before
ExtrapolatedFromAnchor ==
  playbackStartDataTime
    + (now - playbackStartWallClockTime) * playbackSpeed * UnitsPerMsAtUnitSpeed

AnchorCleared(w, d) == w = NULL /\ d = NULL

\* C4: each advance while Playing computes newDataTime from the fixed anchor;
\* when newDataTime >= endTime it publishes exactly endTime, stops, clears the
\* anchor and schedules no further advance; otherwise it publishes newDataTime
\* and one next advance is scheduled.
C4_AdvanceFromAnchor ==
  [][AdvanceStep =>
       /\ isPlaying
       /\ playbackStartWallClockTime # NULL
       /\ IF ExtrapolatedFromAnchor >= endTimeSec(client)
            THEN /\ currentTime' = endTimeSec(client)
                 /\ ~isPlaying'
                 /\ AnchorCleared(playbackStartWallClockTime', playbackStartDataTime')
                 /\ ~animationFrame'
            ELSE /\ currentTime' = ExtrapolatedFromAnchor
                 /\ isPlaying'
                 /\ animationFrame'
                 /\ UNCHANGED <<playbackStartWallClockTime, playbackStartDataTime>>
    ]_vars

\* a second advance from the same anchor: the time published is the anchor's
\* extrapolation, past the time the advance before it had published
C4_Witness ==
  /\ lastOp.op = "animate"
  /\ isPlaying /\ animationFrame
  /\ lastOp.t > playbackStartDataTime
  /\ currentTime > lastOp.t
  /\ currentTime = ExtrapolatedFromAnchor

\* C5: play() from Stopped enters Playing with the anchor (now, currentDataTime);
\* at or past endTime the anchor data time and the current data time are reset
\* to startTime instead.
C5_PlayFromStopped ==
  [][ClockStep({"play"}) =>
       /\ ~isPlaying
       /\ isPlaying'
       /\ playbackStartWallClockTime' = now
       /\ IF currentTime >= endTimeSec(client)
            THEN /\ playbackStartDataTime' = client.startTimeSec
                 /\ currentTime' = client.startTimeSec
            ELSE /\ playbackStartDataTime' = currentTime
                 /\ currentTime' = currentTime
    ]_vars

\* play pressed at the end of the recording: playback restarted from the start
C5_Witness ==
  /\ lastOp.op = "play"
  /\ lastOp.t = endTimeSec(client)
  /\ isPlaying
  /\ currentTime = client.startTimeSec
  /\ playbackStartDataTime = client.startTimeSec
  /\ playbackStartWallClockTime = now

\* C6: pause() from Playing clears the anchor and returns to Stopped leaving
\* currentDataTime at its last published value; a resume at the same wall-clock
\* instant leaves the data time where it was before the pause, and so does the
\* first advance at that instant.
C6_PauseResumeContinuous ==
  [][/\ ClockStep({"pause"}) =>
          /\ isPlaying
          /\ ~isPlaying'
          /\ AnchorCleared(playbackStartWallClockTime', playbackStartDataTime')
          /\ currentTime' = currentTime
     /\ (lastOp.op = "pause" /\ lastOp.w = now /\ ClockStep({"play"})) =>
          /\ currentTime' = lastOp.t
          /\ playbackStartDataTime' = lastOp.t
     /\ (lastOp.op = "play" /\ lastOp.pausedAt = now /\ AdvanceStep) =>
          currentTime' = lastOp.pausedTime
    ]_vars

\* paused in mid-recording and resumed at the same instant
C6_Witness ==
  /\ lastOp.op = "play"
  /\ lastOp.pausedAt = lastOp.w
  /\ lastOp.w = now
  /\ lastOp.pausedTime > client.startTimeSec
  /\ isPlaying
  /\ currentTime = lastOp.pausedTime

\* the time a seek step sets: of the slider's index, or one rewind step back
SeekTarget ==
  IF lastOp'.op = "seek"
    THEN client.startTimeSec + lastOp'.arg * samplePeriod(client)
    ELSE Max(currentTime - REWIND_STEP, client.startTimeSec)

\* C7: seek(t) in Stopped sets currentDataTime to t and leaves isPlaying false
\* and the anchor cleared; in Playing it sets currentDataTime to t, re-anchors
\* to (now, t) and stays Playing, and the next advance extrapolates from t.
C7_Seek ==
  [][/\ ClockStep({"seek", "rewind"}) =>
          /\ currentTime' = SeekTarget
          /\ isPlaying' = isPlaying
          /\ IF isPlaying
               THEN /\ playbackStartWallClockTime' = now
                    /\ playbackStartDataTime' = SeekTarget
               ELSE AnchorCleared(playbackStartWallClockTime', playbackStartDataTime')
     /\ (lastOp.op \in {"seek", "rewind"} /\ isPlaying /\ AdvanceStep) =>
          currentTime' =
            Min(endTimeSec(client),
                currentTime + (now - lastOp.w) * playbackSpeed * UnitsPerMsAtUnitSpeed)
    ]_vars

\* a seek while Playing, some time after playback started
C7_Witness ==
  /\ lastOp.op = "seek"
  /\ isPlaying
  /\ lastOp.w > 0
  /\ currentTime # lastOp.t
  /\ currentTime = getTimeFromIndex(client, lastOp.arg)
  /\ playbackStartWallClockTime = lastOp.w
  /\ playbackStartDataTime = currentTime

\* what setSpeed itself does
SpeedStepEffect ==
  ClockStep({"speed"}) =>
    /\ playbackSpeed' = lastOp'.arg
    /\ currentTime' = currentTime
    /\ isPlaying' = isPlaying
    /\ IF isPlaying
         THEN /\ playbackStartWallClockTime' = now
              /\ playbackStartDataTime' = currentTime
         ELSE UNCHANGED <<playbackStartWallClockTime, playbackStartDataTime>>

\* the first advance after a speed change made while Playing
AdvanceAfterSpeedChange == lastOp.op = "speed" /\ isPlaying /\ AdvanceStep

\* C8 as stated: setSpeed(s) while Playing re-anchors at the current instant;
\* the first data time published after it is not less than the last one
\* published before it and differs from it by (time elapsed since the
\* change) * s.  While Stopped, setSpeed changes only the speed.
C8_Original ==
  [][/\ SpeedStepEffect
     /\ AdvanceAfterSpeedChange =>
          /\ currentTime' >= lastOp.t
          /\ currentTime' =
               lastOp.t + (now - lastOp.w) * playbackSpeed * UnitsPerMsAtUnitSpeed
    ]_vars

\* C8 as amended: ... differs from it by (time elapsed since the change) * s,
\* or is endTime when that reaches or passes endTime.
C8_SpeedChangeNoJump ==
  [][/\ SpeedStepEffect
     /\ AdvanceAfterSpeedChange =>
          /\ currentTime' >= lastOp.t
          /\ currentTime' =
               Min(endTimeSec(client),
                   lastOp.t + (now - lastOp.w) * playbackSpeed * UnitsPerMsAtUnitSpeed)
    ]_vars

\* the speed was changed while Playing, after an advance had published a time
\* past the anchor, and time has passed since the change
C8_Witness ==
  /\ lastOp.op = "speed"
  /\ isPlaying
  /\ playbackSpeed = lastOp.arg
  /\ lastOp.t > client.startTimeSec
  /\ currentTime = lastOp.t
  /\ playbackStartWallClockTime = lastOp.w
  /\ playbackStartDataTime = currentTime
  /\ lastOp.w > 0
  /\ now > lastOp.w

\* C9: while Playing the published data times are non-decreasing and never
\* exceed endTime across advances and speed changes; only a seek moves the
\* data time backwards while Playing.
C9_MonotonicWhilePlaying ==
  [][/\ (isPlaying /\ ClockStep({"animate", "animateEnd", "speed"})) =>
          /\ currentTime' >= currentTime
          /\ currentTime' <= endTimeSec(client)
     /\ (isPlaying /\ isPlaying' /\ currentTime' < currentTime) =>
          ClockStep({"seek", "rewind"})
    ]_vars

\* an advance at a new speed published a later time
C9_Witness ==
  /\ lastOp.op = "animate"
  /\ isPlaying
  /\ playbackSpeed # DEFAULT_PLAYBACK_SPEED
  /\ currentTime > lastOp.t
  /\ lastOp.t > client.startTimeSec
  /\ currentTime < endTimeSec(client)

(***************************************************************************)
(* Claims about the recording data client (SpecClient)                     *)
(***************************************************************************)
\* C10: getFrame(index) fails, without issuing any store request, whenever
\* index < 0 or index >= sampleCount, and otherwise issues exactly one slice
\* request [index, index+1) x [0, channelCount); on the 20000-sample recording
\* getFrame(20000) fails while getFrame(0) and getFrame(19999) succeed.
C10_GetFrameRange ==
  lastCall.fn = "getFrameData" =>
    LET index == lastCall.timeIndex
        cl == lastCall.client
    IN  /\ (index < 0 \/ index >= cl.numTimepoints) =>
             /\ ~lastCall.ok
             /\ Len(storeRequests) = lastCall.before
        /\ (0 <= index /\ index < cl.numTimepoints) =>
             /\ lastCall.ok
             /\ Len(storeRequests) = lastCall.before + 1
             /\ storeRequests[Len(storeRequests)] =
                  [rows |-> <<index, index + 1>>, cols |-> <<0, cl.numChannels>>]
        /\ (cl.numTimepoints = 20000 /\ index = 20000) => ~lastCall.ok
        /\ (cl.numTimepoints = 20000 /\ index \in {0, 19999}) => lastCall.ok

\* getFrame(20000) on the 20000-sample recording has failed, no request issued
C10_Witness ==
  /\ lastCall.fn = "getFrameData"
  /\ lastCall.client.numTimepoints = 20000
  /\ lastCall.timeIndex = 20000
  /\ ~lastCall.ok
  /\ Len(storeRequests) = lastCall.before

(***************************************************************************)
(* Claims about loading (SpecLoad)                                         *)
(***************************************************************************)
\* C2: the recording applied to the view state is the one created for the most
\* recently selected store; the result of a load started for an earlier store
\* never replaces it.  Stated of the states in which every load has completed:
\* the client is then the client of the selected store.
C2_LatestStoreWins ==
  (pendingLoads = EmptyBag /\ client # NoClient) => client.store = zarrGroup

(***************************************************************************)
(* Claims about the canvas (Spec)                                          *)
(***************************************************************************)
\* C1: a frame fetch that resolves after the current frame index has moved on
\* is never applied to the displayed frame state.  Stated of the states in
\* which the canvas is shown, no fetch is in flight and none has failed: the
\* displayed frame is then the frame of the current index of the current
\* recording.
C1_DisplayedFrameIsCurrent ==
  ( /\ CanvasShown(loading, error, client)
    /\ canvasError = NoError
    /\ pendingFrames = EmptyBag
    /\ frameData # NoFrame )
  => frameData = [store |-> client.store,
                  index |-> currentTimeIndex(client, currentTime)]

\* C3: in a non-playing state no tracked (decaying) overlay entry is left over
\* from a playing session.  Stated of the non-playing states in which every
\* frame fetch has resolved and none has failed, where even a clearing that
\* waits for the fetch started by the pause has taken place: the tracked set
\* is then empty.
C3_NoResidualWhenPaused ==
  ( /\ ~isPlaying
    /\ CanvasShown(loading, error, client)
    /\ canvasError = NoError
    /\ pendingFrames = EmptyBag )
  => recentSpikes = <<>>

(***************************************************************************)
(* Claims about the client (SpecCreate, SpecClient)                        *)
(***************************************************************************)
\* what create() requires of a store is there
StoreComplete(store) ==
  /\ RequiredAttrs \subseteq DOMAIN store.attrs
  /\ "raw_data" \in store.datasets
  /\ ("num_spikes" \in DOMAIN store.attrs /\ store.attrs.num_spikes > 0)
       => SpikeDatasets \subseteq store.datasets

\* the load that completes in this step is the load of this store
LoadCompletes(store) ==
  /\ BagIn(store.id, pendingLoads)
  /\ pendingLoads' = pendingLoads (-) SetToBag({store.id})

\* C11: create(store) fails when a required attribute or a required dataset
\* (raw_data, or a spike array when the spike count is positive) is absent,
\* and then returns no client; the load of such a store leaves the view with
\* an error message, its client untouched and no recording displayed.
C11_CreateFailsOnMissing ==
  [][\A store \in LoadStores :
       /\ create(store).ok <=> StoreComplete(store)
       /\ ~create(store).ok => "client" \notin DOMAIN create(store)
       /\ (LoadCompletes(store) /\ ~StoreComplete(store))
            => /\ error' # NoError
               /\ client' = client
               /\ ~loading'
               /\ ~CanvasShown(loading', error', client')]_vars

\* the view has finished loading a store with something absent: it shows
\* the error in place of the recording
C11_Witness ==
  /\ \E store \in FaultyStores : zarrGroup = store.id
  /\ lastOp.op = "load"
  /\ pendingLoads = EmptyBag
  /\ ~loading
  /\ error # NoError
  /\ ~CanvasShown(loading, error, client)

\* C12: getSpikingChannels(i) returns exactly the channels c for which some
\* k below the spike count has spike_frame_indices[k] = i and
\* spike_channel_indices[k] = c, and the empty set when no spike occurs at i
\* or the recording has no spike data.
C12_SpikingChannelsExact ==
  lastCall.fn = "getSpikingChannels" =>
    LET store == StoreById(lastCall.client.store)
        numSpikes == lastCall.client.numSpikes
        i == lastCall.frameIndex
        atFrame == {k \in 1..numSpikes : store.spike_frame_indices[k] = i}
    IN  /\ lastCall.result = {store.spike_channel_indices[k] : k \in atFrame}
        /\ atFrame = {} => lastCall.result = {}
        /\ numSpikes = 0 => lastCall.result = {}

\* the spiking channels of a frame with two spikes have been returned, and
\* those of a frame whose only spike lies beyond the spike count
C12_Witness ==
  /\ lastCall.fn = "getSpikingChannels"
  /\ \/ Cardinality(lastCall.result) = 2
     \/ /\ lastCall.client.store = StoreFewerSpikes.id
        /\ lastCall.frameIndex = 2
        /\ lastCall.result = {0}

\* C13: over any sequence of getElectrodeLayout() calls on one client,
\* calls that overlap before the first fetch resolves included, the store's
\* layout dataset is read at most once.
C13_LayoutReadOnce ==
  \A id \in LayoutIds : coordsReads[id] <= 1

(***************************************************************************)
(* Claims about the time / index conversions (SpecTime)                    *)
(***************************************************************************)
\* r is (t - startTime) * samplingFrequency rounded to the nearest integer,
\* a half rounded up: r - 1/2 <= (t - startTime) / period < r + 1/2
RoundedSampleOf(cl, t, r) ==
  /\ (2 * r - 1) * samplePeriod(cl) <= 2 * (t - cl.startTimeSec)
  /\ 2 * (t - cl.startTimeSec) < (2 * r + 1) * samplePeriod(cl)

\* the call's result is the rounded sample clamped to [0, sampleCount-1]
ClampedRoundedSample(call) ==
  LET cl == call.client
      q == (call.timeSec - cl.startTimeSec) \div samplePeriod(cl)
  IN  \E r \in (q - 1)..(q + 1) :
        /\ RoundedSampleOf(cl, call.timeSec, r)
        /\ call.result = Max(0, Min(cl.numTimepoints - 1, r))

\* C14: timeToIndex(t) is round((t - startTime) * samplingFrequency) clamped
\* to [0, sampleCount-1]; its result lies in [0, sampleCount-1]; of two calls
\* on one recording the one with the later time returns no smaller an index;
\* with sampleCount = 20000, samplingFrequency = 20000 and startTime = 0,
\* timeToIndex(0.25) = 5000.
C14_TimeToIndex ==
  [][lastCall'.fn = "getIndexFromTime" =>
       /\ ClampedRoundedSample(lastCall')
       /\ 0 <= lastCall'.result
       /\ lastCall'.result <= lastCall'.client.numTimepoints - 1
       /\ ( /\ lastCall.fn = "getIndexFromTime"
            /\ lastCall.client = lastCall'.client
            /\ lastCall.timeSec <= lastCall'.timeSec )
          => lastCall.result <= lastCall'.result
       /\ ( /\ lastCall'.client.store = StoreD.id
            /\ lastCall'.timeSec = TimeUnitsPerSec \div 4 )
          => lastCall'.result = 5000]_vars

\* timeToIndex(0.25) has returned 5000 on the 20000-sample recording
C14_Witness ==
  /\ lastCall.fn = "getIndexFromTime"
  /\ lastCall.client.store = StoreD.id
  /\ lastCall.timeSec = TimeUnitsPerSec \div 4
  /\ lastCall.result = 5000

SpikeChannel == StoreD.spike_channel_indices[1]

\* the step displays frame i through a fetch started while playing
DisplaysWhilePlaying(i) ==
  \E f \in BagToSet(pendingFrames) :
    f.isPlaying /\ f.currentTimeIndex = i /\ loadFrame(f)

\* the step runs updateSpikingChannels: the timer's refresh, or the inline
\* refresh of a frame displayed through a fetch started while playing
RefreshStep ==
  \/ cleanupTimerFired
  \/ \E f \in BagToSet(pendingFrames) : f.isPlaying /\ loadFrame(f)

\* the age of the tracked entry of a channel
SpikeAge(c) == now - recentSpikes[c]

\* displaying the spike's frame while playing adds the channel to the overlay
\* with opacity 0.9
AddedAtFullOpacity ==
  (DisplaysWhilePlaying(SpikeFrame) /\ SpikeChannel \notin DOMAIN recentSpikes)
  => /\ SpikeChannel \in spikingChannels'
     /\ recentSpikes'[SpikeChannel] = now
     /\ spikeRings'[SpikeChannel] = FullOpacity

\* 250 ms after the channel was added its ring has opacity 0.45
HalfOpacityAtHalfWindow ==
  ( /\ isPlaying
    /\ SpikeChannel \in spikingChannels
    /\ SpikeChannel \in DOMAIN recentSpikes
    /\ SpikeAge(SpikeChannel) = SPIKE_PERSISTENCE_DURATION_MS \div 2 )
  => spikeRings[SpikeChannel] = FullOpacity \div 2

\* C16 as stated: with a spike at (channel 3, index 100), displaying index
\* 100 while playing adds channel 3 with opacity 0.9; after 250 ms its
\* opacity is 0.45; a refresh run when 500 ms (or more) have elapsed evicts
\* channel 3 from the tracked and the active set.
C16_Original ==
  /\ []HalfOpacityAtHalfWindow
  /\ [][/\ AddedAtFullOpacity
        /\ ( /\ RefreshStep
             /\ SpikeChannel \in DOMAIN recentSpikes
             /\ SpikeAge(SpikeChannel) >= SPIKE_PERSISTENCE_DURATION_MS )
           => /\ SpikeChannel \notin DOMAIN recentSpikes'
              /\ SpikeChannel \notin spikingChannels']_vars

\* C16: with a spike at (channel 3, index 100), displaying index 100 while
\* playing adds channel 3 with opacity 0.9; after 250 ms its opacity is 0.45;
\* a refresh run when more than 500 ms have elapsed evicts channel 3 from the
\* tracked and the active set, while a refresh run at exactly 500 ms keeps it
\* in both, its ring at opacity 0.
C16_ScenarioB ==
  /\ []HalfOpacityAtHalfWindow
  /\ [][/\ AddedAtFullOpacity
        /\ ( /\ RefreshStep
             /\ SpikeChannel \in DOMAIN recentSpikes
             /\ SpikeAge(SpikeChannel) > SPIKE_PERSISTENCE_DURATION_MS )
           => /\ SpikeChannel \notin DOMAIN recentSpikes'
              /\ SpikeChannel \notin spikingChannels'
        /\ ( /\ RefreshStep
             /\ SpikeChannel \in DOMAIN recentSpikes
             /\ SpikeAge(SpikeChannel) = SPIKE_PERSISTENCE_DURATION_MS )
           => /\ SpikeChannel \in DOMAIN recentSpikes'
              /\ SpikeChannel \in spikingChannels'
              /\ isPlaying' => spikeRings'[SpikeChannel] = 0]_vars

\* 500 ms after channel 3 was added while playing, the refresh timer running:
\* the channel is still tracked and active, its ring at opacity 0
C16_Witness ==
  /\ isPlaying
  /\ cleanupTimer
  /\ frameData = [store |-> StoreD.id, index |-> SpikeFrame]
  /\ SpikeChannel \in spikingChannels
  /\ SpikeChannel \in DOMAIN recentSpikes
  /\ SpikeAge(SpikeChannel) = SPIKE_PERSISTENCE_DURATION_MS
  /\ spikeRings[SpikeChannel] = 0

ColorUnitsPerOne == 10 ^ 4
Number(n) == [nan |-> FALSE, num |-> n]
NaN == [nan |-> TRUE, num |-> 0]

Abs(a) == IF a >= 0 THEN a ELSE 0 - a
\* Math.max(lo, Math.min(hi, x)) of a number
clampTo(lo, hi, x) == Max(lo, Min(hi, x))

\* Math.exp((contrast - 40) / 10) at the tens of the contrast slider (0..100),
\* in units of 1e-4
contrastScaleTable ==
  <<183, 498, 1353, 3679, 10000, 27183, 73891, 200855, 545982, 1484132,
    4034288>>
contrastScale(contrast) == contrastScaleTable[contrast \div 10 + 1]

\* MEAMovieCanvas, colour step of one electrode: the value normalised around
\* the median over dataRange, scaled by the contrast, clamped to [-1, 1],
\* inverted and mapped to [0, 1].  A dataRange of 0 divides by zero: the
\* quotient is +-Infinity, which the clamp brings to +-1, or NaN when the
\* value is the median, which Math.min and Math.max pass on.
movieColorValue(value, dataMin, dataMax, dataMedian, contrast) ==
  LET dataRange ==
        2 * Max(Abs(dataMax - dataMedian), Abs(dataMin - dataMedian))
  IN  IF dataRange = 0
        THEN IF value = dataMedian THEN NaN
             ELSE IF value > dataMedian THEN Number(0)
             ELSE Number(ColorUnitsPerOne)
        ELSE LET scaledValue ==
                   clampTo(0 - ColorUnitsPerOne, ColorUnitsPerOne,
                           ((value - dataMedian) * 2 * contrastScale(contrast))
                             \div dataRange)
             IN  Number(((0 - scaledValue) + ColorUnitsPerOne) \div 2)

\* MEAFiringRatesAndAmplitudesClient.#loadData: the global maximum of the
\* mean spike amplitudes
RECURSIVE maxAmplitudeOf(_)
maxAmplitudeOf(meanSpikeAmplitudes) ==
  IF Len(meanSpikeAmplitudes) = 1 THEN Head(meanSpikeAmplitudes)
  ELSE Max(Head(meanSpikeAmplitudes), maxAmplitudeOf(Tail(meanSpikeAmplitudes)))

\* MEAFiringRatesAndAmplitudesCanvas, colour of one electrode
amplitudeColorValue(amplitude, maxAmplitude) ==
  IF maxAmplitude > 0
    THEN Number((amplitude * ColorUnitsPerOne) \div maxAmplitude)
    ELSE Number(0)

\* sign(b) * |b| ^ (1/4) of b = (brightness - 50) / 50 at the quarters of the
\* brightness slider (0..100), in units of 1e-4
brightnessScaleTable == <<0 - 10000, 0 - 8409, 0, 8409, 10000>>
brightnessScale(brightness) == brightnessScaleTable[brightness \div 25 + 1]

\* TemplateCanvas, colour of one electrode: dataMin is moved towards dataMax
\* by the brightness, the value normalised over what is left, inverted and
\* clamped to [0, 1]
templateColorValue(value, dataMin, dataMax, brightness) ==
  LET adjustedMin ==
        dataMin * ColorUnitsPerOne + (dataMax - dataMin) * brightnessScale(brightness)
      span == dataMax * ColorUnitsPerOne - adjustedMin
      normalizedValue ==
        IF span > 0
          THEN ((value * ColorUnitsPerOne - adjustedMin) * ColorUnitsPerOne) \div span
          ELSE ColorUnitsPerOne \div 2
  IN  Number(clampTo(0, ColorUnitsPerOne, ColorUnitsPerOne - normalizedValue))

\* the smallest and the largest element of a template
RECURSIVE templateMin(_)
templateMin(templateData) ==
  IF Len(templateData) = 1 THEN Head(templateData)
  ELSE Min(Head(templateData), templateMin(Tail(templateData)))
RECURSIVE templateMax(_)
templateMax(templateData) ==
  IF Len(templateData) = 1 THEN Head(templateData)
  ELSE Max(Head(templateData), templateMax(Tail(templateData)))

\* Inputs: two electrodes, sample values and statistics of a few units
ColorChannels == 2
SampleValues == (0 - 2)..2
Contrasts == {0, 40, 100}
Brightnesses == {0, 25, 50, 75, 100}
\* the statistics a recording can have: data_min <= data_median <= data_max
DataStats ==
  {st \in [dataMin : SampleValues, dataMax : SampleValues, dataMedian : SampleValues] :
     st.dataMin <= st.dataMedian /\ st.dataMedian <= st.dataMax}
AmplitudeFrames == 2

\* MEAMovieCanvas paints a frame of a recording with statistics st
renderMovieFrame(frame, st, contrast) ==
  /\ lastCall' =
       [fn |-> "valueToColor", caller |-> "MEAMovieCanvas",
        values |-> [i \in 1..ColorChannels |->
                      movieColorValue(frame[i], st.dataMin, st.dataMax,
                                      st.dataMedian, contrast)]]
  /\ UNCHANGED <<now, viewVars, canvasVars, otherViewVars, storeRequests, layoutVars>>

\* MEAFiringRatesAndAmplitudesCanvas paints frame frameIndex of the mean
\* spike amplitudes (num_frames x num_channels, row-major)
renderAmplitudeFrame(meanSpikeAmplitudes, frameIndex) ==
  /\ lastCall' =
       [fn |-> "valueToColor", caller |-> "MEAFiringRatesAndAmplitudesCanvas",
        values |-> [i \in 1..ColorChannels |->
                      amplitudeColorValue(
                        meanSpikeAmplitudes[frameIndex * ColorChannels + i],
                        maxAmplitudeOf(meanSpikeAmplitudes))]]
  /\ UNCHANGED <<now, viewVars, canvasVars, otherViewVars, storeRequests, layoutVars>>

\* TemplateCanvas paints a template, on its own scale or on the global one
renderTemplate(templateData, useGlobalScale, globalMin, globalMax, brightness) ==
  LET dataMin == IF useGlobalScale THEN globalMin ELSE templateMin(templateData)
      dataMax == IF useGlobalScale THEN globalMax ELSE templateMax(templateData)
  IN  /\ lastCall' =
           [fn |-> "valueToColor", caller |-> "TemplateCanvas",
            values |-> [i \in 1..ColorChannels |->
                          templateColorValue(templateData[i], dataMin, dataMax,
                                             brightness)]]
      /\ UNCHANGED <<now, viewVars, canvasVars, otherViewVars, storeRequests, layoutVars>>

NextColor ==
  \/ \E st \in DataStats :
       \E frame \in [1..ColorChannels -> st.dataMin..st.dataMax] :
         \E contrast \in Contrasts : renderMovieFrame(frame, st, contrast)
  \/ \E meanSpikeAmplitudes \in [1..(AmplitudeFrames * ColorChannels) -> SampleValues] :
       \E frameIndex \in 0..(AmplitudeFrames - 1) :
         renderAmplitudeFrame(meanSpikeAmplitudes, frameIndex)
  \/ \E templateData \in [1..ColorChannels -> SampleValues] :
       \E useGlobalScale \in BOOLEAN :
         \E globalMin \in SampleValues : \E globalMax \in SampleValues :
           \E brightness \in Brightnesses :
             /\ globalMin <= globalMax
             /\ renderTemplate(templateData, useGlobalScale, globalMin,
                               globalMax, brightness)

SpecColor == Init /\ [][NextColor]_vars

InUnitInterval(v) == ~v.nan /\ v.num >= 0 /\ v.num <= ColorUnitsPerOne
PassesUnitInterval(caller) ==
  (lastCall.fn = "valueToColor" /\ lastCall.caller = caller)
    => \A i \in DOMAIN lastCall.values : InUnitInterval(lastCall.values[i])

\* C18: every caller of the colormap (the movie canvas, the firing-rate /
\* amplitude canvas and the template view) passes valueToColor an argument in
\* [0, 1], whatever the sample values, the statistics and the contrast or
\* brightness setting.
C18_CallersPassUnitInterval ==
  /\ PassesUnitInterval("MEAMovieCanvas")
  /\ PassesUnitInterval("MEAFiringRatesAndAmplitudesCanvas")
  /\ PassesUnitInterval("TemplateCanvas")

(***************************************************************************)
(* Claims about leaving Playing (SpecTeardown)                             *)
(***************************************************************************)
Playing == Mounted /\ isPlaying

\* a step that leaves Playing: a pause, the end of the data, or the unmount
LeavesPlaying == Playing /\ ~Playing'

\* C19: every transition out of Playing (pause, end of the data, unmount of the
\* view) cancels the requested animate callback: no callback is pending after
\* it, and as long as the view is not Playing no callback is pending, playback
\* resumes only by a play of handlePlayPause, and the data time is published
\* only by a play, a seek or a load, never by an animate callback.
C19_LeavingPlayingDeregisters ==
  /\ [](~Playing => ~animationFrame)
  /\ [][LeavesPlaying => ~animationFrame']_vars
  /\ [][(~Playing /\ isPlaying' # isPlaying) => lastOp'.op = "play"]_vars
  /\ [][(~Playing /\ currentTime' # currentTime)
          => lastOp'.op \in {"play", "seek", "load"}]_vars

\* the view was unmounted while playing, after the data time had advanced
C19_Witness ==
  /\ lastOp.op = "unmount"
  /\ isPlaying
  /\ lastOp.t > StoreA.attrs.start_time_sec
  /\ ~animationFrame

(***************************************************************************)
(* Claims about the decay-refresh timer (SpecScenario)                     *)
(***************************************************************************)
\* C20: while playing, the refresh timer runs whenever overlay entries are
\* tracked: in every state in which the canvas is shown, playback runs and
\* recentSpikesRef is not empty, the interval of the cleanup-timer effect is
\* set; this includes playback started from a paused frame that displays
\* spikes.
C20_RefreshTimerWhileTracking ==
  (CanvasShown(loading, error, client) /\ isPlaying /\ DOMAIN recentSpikes # {})
    => cleanupTimer

\* C21: the refresh timer is released on every exit path: whenever playback
\* is not running, recentSpikesRef is empty, or the canvas is not mounted, no
\* interval of the cleanup-timer effect is set.
C21_TimerReleased ==
  (~isPlaying \/ DOMAIN recentSpikes = {} \/ ~CanvasShown(loading, error, client))
    => ~cleanupTimer

(***************************************************************************)
(* Claims about the frame fetches of the canvas (SpecScenario)             *)
(***************************************************************************)
\* the step completes the fetch of closure f: the closure leaves the pending
\* fetches, and nothing of the view changes
CompletesFetch(f) ==
  /\ BagIn(f, pendingFrames)
  /\ pendingFrames' = pendingFrames (-) SetToBag({f})
  /\ UNCHANGED <<now, viewVars>>

\* the fetch was rejected: the catch branch, which leaves frame and spikes
FetchRejected ==
  /\ canvasError' = "Error loading frame data"
  /\ UNCHANGED <<frameData, spikingChannels, recentSpikes, cleanupTimer>>

StoreSpikesAt(store, i) ==
  {store.spike_channel_indices[k] :
     k \in {j \in 1..store.attrs.num_spikes : store.spike_frame_indices[j] = i}}

\* the state shows frame f.currentTimeIndex and the spike update of that
\* index: paused, exactly the frame's spikes with nothing tracked; playing,
\* the tracked channels, which hold every spike of the frame not tracked before
AppliesFrameAndSpikes(f) ==
  LET spikes == StoreSpikesAt(StoreById(f.client.store), f.currentTimeIndex)
  IN  /\ frameData' = [store |-> f.client.store, index |-> f.currentTimeIndex]
      /\ IF f.isPlaying
           THEN /\ spikingChannels' = DOMAIN recentSpikes'
                /\ spikes \ DOMAIN recentSpikes \subseteq spikingChannels'
           ELSE /\ spikingChannels' = spikes
                /\ recentSpikes' = <<>>

\* the spike set on display belongs to the frame on display: it is the
\* frame's own spikes or the tracked set, and empty when no frame is shown
OverlayOfDisplayedFrame ==
  IF frameData = NoFrame
    THEN spikingChannels = {}
    ELSE \/ spikingChannels = StoreSpikesAt(StoreById(frameData.store), frameData.index)
         \/ spikingChannels = DOMAIN recentSpikes

\* C23: a completed frame fetch for index i applies the frame of i and the
\* spike update of i in one state update, a failed fetch applies neither, the
\* displayed frame changes in no other step while the canvas is mounted, and
\* in every state the overlay belongs to the displayed frame.
C23_FrameAndSpikesTogether ==
  /\ []OverlayOfDisplayedFrame
  /\ [][\A f \in BagToSet(pendingFrames) :
          CompletesFetch(f) => (FetchRejected \/ AppliesFrameAndSpikes(f))]_vars
  /\ [][(frameData' # frameData /\ frameData' # NoFrame)
          => \E f \in BagToSet(pendingFrames) :
               CompletesFetch(f) /\ AppliesFrameAndSpikes(f)]_vars

\* the spike's frame was fetched while paused and is displayed with its
\* spike, nothing being tracked
C23_Witness ==
  /\ ~isPlaying
  /\ pendingFrames = EmptyBag
  /\ frameData = [store |-> StoreD.id, index |-> SpikeFrame]
  /\ spikingChannels = {SpikeChannel}
  /\ recentSpikes = <<>>
  /\ canvasError = NoError

(***************************************************************************)
(* Claims about the ranges of index and data time (Spec, SpecClock)        *)
(***************************************************************************)
\* C24: every frame request of the canvas has an index in
\* [0, numTimepoints - 1] of the client it is sent to, so that getFrameData
\* does not reject it as out of range, whatever sequence of play, pause, seek,
\* rewind, speed change and animate led to it.
C24_FrameRequestsInRange ==
  \A f \in BagToSet(pendingFrames) :
    /\ f.client.numTimepoints >= 1
    /\ f.currentTimeIndex \in 0..(f.client.numTimepoints - 1)
    /\ getFrameData(f.client, f.currentTimeIndex).ok

\* playback reached the end: the data time is endTimeSec, whose rounded index
\* is numTimepoints, and the frame requested is the last one
C24_Witness ==
  /\ client # NoClient
  /\ currentTime = endTimeSec(client)
  /\ \E f \in BagToSet(pendingFrames) :
       /\ f.client = client
       /\ f.currentTimeIndex = client.numTimepoints - 1

\* C25: once the recording is loaded, the current data time is within
\* [startTimeSec, endTimeSec] in every state, whatever sequence of play, pause,
\* seek, rewind by 1 ms, speed change and animate led to it.
C25_DataTimeInRange ==
  client # NoClient =>
    /\ currentTime >= client.startTimeSec
    /\ currentTime <= endTimeSec(client)

\* a rewind from less than 1 ms after the start was floored at the start
C25_Witness ==
  /\ client # NoClient
  /\ lastOp.op = "rewind"
  /\ lastOp.t > client.startTimeSec
  /\ lastOp.t < client.startTimeSec + REWIND_STEP
  /\ currentTime = client.startTimeSec

(***************************************************************************)
(* Claims about the termination of playback (SpecPlayback)                 *)
(***************************************************************************)
StoppedAtEnd ==
  /\ client # NoClient
  /\ ~isPlaying
  /\ currentTime = endTimeSec(client)

\* C26: a playback the user leaves to itself terminates: when the animate
\* callback keeps firing and the wall clock advances, every Playing state is
\* followed by a state that is stopped with the data time at endTimeSec, and
\* a stopped view starts playing again only by the user's play.
C26_PlaybackTerminates ==
  /\ isPlaying ~> StoppedAtEnd
  /\ [][(~isPlaying /\ isPlaying') => lastOp'.op = "play"]_vars

\* the slowest playback of the recording has run to its end, past the time
\* the wall clock is otherwise given
C26_Witness ==
  /\ StoppedAtEnd
  /\ lastOp.op = "animateEnd"
  /\ playbackSpeed = SlowestSpeed
  /\ now > MaxNow

(***************************************************************************)
(* Claims about the rings a render draws (SpecRender)                      *)
(***************************************************************************)
\* C27: every ring a render draws has an opacity within [0, 0.9]: no channel
\* of spikingChannels is drawn with an age above the persistence window,
\* although the render reads the wall clock itself and spikingChannels was
\* computed by an earlier refresh.
C27_RingOpacityInRange ==
  lastCall.fn = "drawSpikeRings" =>
    \A c \in DOMAIN lastCall.rings :
      lastCall.rings[c] >= 0 /\ lastCall.rings[c] <= FullOpacity

(***************************************************************************)
(* MEAFiringRatesAndAmplitudesView and its canvas.  The electrodes of a    *)
(* store lie on one row (y = 0); screen lengths are in units of 0.1 px.    *)
(***************************************************************************)
MAX_FIRING_RATE_HZ == 300
MIN_HIT_RADIUS == 40
RatesPadding == 600
RatesCanvasWidth == 1800
RatesCanvasHeight == 1000

\* MEAFiringRatesAndAmplitudesClient.create: the attributes, then #loadData
ratesCreate(store) ==
  IF ~({"num_frames", "num_channels"} \subseteq DOMAIN store.attrs)
    THEN [ok |-> FALSE, error |-> "Missing required attributes in zarr group"]
  ELSE IF "electrode_coords" \notin store.datasets
    THEN [ok |-> FALSE, error |-> "No electrode_coords dataset found"]
  ELSE IF "mean_firing_rates" \notin store.datasets
    THEN [ok |-> FALSE, error |-> "No mean_firing_rates dataset found"]
  ELSE IF "mean_spike_amplitudes" \notin store.datasets
    THEN [ok |-> FALSE, error |-> "No mean_spike_amplitudes dataset found"]
  ELSE [ok |-> TRUE,
        client |-> [store |-> store.id,
                    numFrames |-> store.attrs.num_frames,
                    numChannels |-> store.attrs.num_channels]]

\* the range test of getFiringRatesForFrame and getAmplitudesForFrame
ratesFrameInRange(cl, frameIndex) ==
  ~(frameIndex < 0 \/ frameIndex >= cl.numFrames)

\* the entry of a channel in the slice a frame accessor returns
getFiringRatesForFrame(cl, frameIndex) ==
  [ch \in 0..(cl.numChannels - 1) |->
     RatesStoreById(cl.store).mean_firing_rates[frameIndex * cl.numChannels + ch + 1]]
getAmplitudesForFrame(cl, frameIndex) ==
  [ch \in 0..(cl.numChannels - 1) |->
     RatesStoreById(cl.store).mean_spike_amplitudes[frameIndex * cl.numChannels + ch + 1]]

\* calculateMinElectrodeDistance
ratesMinElectrodeDist(cl) ==
  LET xs == RatesStoreById(cl.store).electrode_x
      ds == {Abs(xs[i] - xs[j]) : i, j \in DOMAIN xs} \ {0}
  IN  IF ds = {} THEN 10 ELSE CHOOSE d \in ds : \A e \in ds : d <= e

\* the screen position and radius the render effect stores for a channel:
\* scale = (width - 2 * padding) / dataWidth, the row centred vertically
electrodeScreenPosition(cl, frameIndex, ch) ==
  LET xs == RatesStoreById(cl.store).electrode_x
      span == RatesCanvasWidth - 2 * RatesPadding
      minX == CHOOSE x \in {xs[i] : i \in DOMAIN xs} : \A j \in DOMAIN xs : x <= xs[j]
      maxX == CHOOSE x \in {xs[i] : i \in DOMAIN xs} : \A j \in DOMAIN xs : x >= xs[j]
      dataWidth == maxX - minX
      baseRadius == (ratesMinElectrodeDist(cl) * span * 9) \div (dataWidth * 20)
      firingRate == getFiringRatesForFrame(cl, frameIndex)[ch]
  IN  [ channelIndex |-> ch,
        x |-> RatesPadding + ((xs[ch + 1] - minX) * span) \div dataWidth,
        y |-> RatesCanvasHeight \div 2,
        radius |-> (Min(firingRate, MAX_FIRING_RATE_HZ) * baseRadius)
                     \div MAX_FIRING_RATE_HZ ]

\* the test of handleMouseMove for one stored position
ratesHit(e, mouseX, mouseY) ==
  LET dx == mouseX - e.x
      dy == mouseY - e.y
      r  == Max(e.radius, MIN_HIT_RADIUS)
  IN  dx * dx + dy * dy <= r * r

\* the loop of handleMouseMove from position ch on: the first position that
\* contains the pointer, with the rates of the frame the canvas displays
RECURSIVE findHover(_, _, _, _, _)
findHover(cl, frameIndex, ch, mouseX, mouseY) ==
  IF ch >= cl.numChannels THEN NoHover
  ELSE IF ratesHit(electrodeScreenPosition(cl, frameIndex, ch), mouseX, mouseY)
    THEN [ channelIndex |-> ch,
           firingRate |-> getFiringRatesForFrame(cl, frameIndex)[ch],
           amplitude |-> getAmplitudesForFrame(cl, frameIndex)[ch],
           x |-> mouseX,
           y |-> mouseY ]
  ELSE findHover(cl, frameIndex, ch + 1, mouseX, mouseY)

\* the view renders the canvas when it is not loading, has no error and has
\* a client
ratesCanvasShown(isLoading, err, cl) ==
  ~isLoading /\ err = NoError /\ cl # NoClient

\* the render effect of the canvas: an error of the frame accessors is kept
\* in the error state, which nothing resets while the canvas is mounted
ratesRender(cl, frameIndex, err) ==
  IF err # NoError THEN err
  ELSE IF ~ratesFrameInRange(cl, frameIndex) THEN "Frame index out of range"
  ELSE NoError

\* the canvas element is in the document
ratesCanvasElement ==
  /\ ratesCanvasShown(ratesLoading, ratesError, ratesClient)
  /\ ratesCanvasError = NoError

\* the Prev / Next buttons and the slider are in the document
showControls ==
  /\ ratesCanvasShown(ratesLoading, ratesError, ratesClient)
  /\ ratesClient.numFrames > 1

\* onDataChange of the wrapper hands the view another zarr group: the load
\* effect starts again and the view shows "Loading", which unmounts the
\* canvas; the frame index is left as it is
ratesOnDataChange(store) ==
  /\ BagCardinality(ratesPendingLoads) < MaxLoads
  /\ ratesZarrGroup' = store.id
  /\ ratesLoading' = TRUE
  /\ ratesError' = NoError
  /\ ratesPendingLoads' = ratesPendingLoads (+) SetToBag({store.id})
  /\ hoverInfo' = NoHover
  /\ ratesCanvasError' = NoError
  /\ UNCHANGED <<ratesClient, currentFrameIndex>>
  /\ UNCHANGED <<now, viewVars, canvasVars, storeRequests, lastCall, layoutVars,
                 clusterVars>>

\* the continuation of loadClient after create settles, and the render of
\* the canvas that follows it
ratesLoadClient(id) ==
  /\ BagIn(id, ratesPendingLoads)
  /\ ratesPendingLoads' = ratesPendingLoads (-) SetToBag({id})
  /\ LET r == ratesCreate(RatesStoreById(id))
         wasShown == ratesCanvasShown(ratesLoading, ratesError, ratesClient)
     IN  /\ ratesClient' = IF r.ok THEN r.client ELSE ratesClient
         /\ ratesError' = IF r.ok THEN ratesError ELSE r.error
         /\ ratesLoading' = FALSE
         /\ IF ratesCanvasShown(FALSE, ratesError', ratesClient')
              THEN /\ hoverInfo' = IF wasShown THEN hoverInfo ELSE NoHover
                   /\ ratesCanvasError' =
                        ratesRender(ratesClient', currentFrameIndex,
                                    IF wasShown THEN ratesCanvasError ELSE NoError)
              ELSE /\ hoverInfo' = NoHover
                   /\ ratesCanvasError' = NoError
  /\ UNCHANGED <<ratesZarrGroup, currentFrameIndex>>
  /\ UNCHANGED <<now, viewVars, canvasVars, storeRequests, lastCall, layoutVars,
                 clusterVars>>

\* setCurrentFrameIndex and the render of the canvas with the new frame
setCurrentFrameIndex(frameIndex) ==
  /\ currentFrameIndex' = frameIndex
  /\ ratesCanvasError' = ratesRender(ratesClient, frameIndex, ratesCanvasError)
  /\ UNCHANGED <<ratesZarrGroup, ratesClient, ratesLoading, ratesError,
                 ratesPendingLoads, hoverInfo>>
  /\ UNCHANGED <<now, viewVars, canvasVars, storeRequests, lastCall, layoutVars,
                 clusterVars>>

\* the Prev button, disabled at frame 0
ratesPrev ==
  /\ showControls
  /\ currentFrameIndex # 0
  /\ setCurrentFrameIndex(Max(0, currentFrameIndex - 1))

\* the Next button, disabled at the last frame
ratesNext ==
  /\ showControls
  /\ currentFrameIndex # ratesClient.numFrames - 1
  /\ setCurrentFrameIndex(Min(ratesClient.numFrames - 1, currentFrameIndex + 1))

\* the slider, whose range is 0 .. numFrames - 1
ratesSlider(frameIndex) ==
  /\ showControls
  /\ frameIndex \in 0..(ratesClient.numFrames - 1)
  /\ frameIndex # currentFrameIndex
  /\ setCurrentFrameIndex(frameIndex)

\* the pointer moves over the canvas
handleMouseMove(mouseX, mouseY) ==
  /\ ratesCanvasElement
  /\ hoverInfo' = findHover(ratesClient, currentFrameIndex, 0, mouseX, mouseY)
  /\ UNCHANGED <<ratesZarrGroup, ratesClient, ratesLoading, ratesError,
                 currentFrameIndex, ratesPendingLoads, ratesCanvasError>>
  /\ UNCHANGED <<now, viewVars, canvasVars, storeRequests, lastCall, layoutVars,
                 clusterVars>>

\* the pointer leaves the canvas
handleMouseLeave ==
  /\ ratesCanvasElement
  /\ hoverInfo' = NoHover
  /\ UNCHANGED <<ratesZarrGroup, ratesClient, ratesLoading, ratesError,
                 currentFrameIndex, ratesPendingLoads, ratesCanvasError>>
  /\ UNCHANGED <<now, viewVars, canvasVars, storeRequests, lastCall, layoutVars,
                 clusterVars>>

\* pointer positions on the electrode row: on the first electrode, 3 px and
\* 10 px to its right, between the electrodes, on the last electrode
PointerXs == {600, 630, 700, 900, 1200}

NextRates ==
  \/ \E store \in RatesStores : ratesOnDataChange(store)
  \/ \E id \in {store.id : store \in RatesStores} : ratesLoadClient(id)
  \/ ratesPrev
  \/ ratesNext
  \/ \E store \in RatesStores :
       \E frameIndex \in 0..(store.attrs.num_frames - 1) : ratesSlider(frameIndex)
  \/ \E mouseX \in PointerXs : handleMouseMove(mouseX, RatesCanvasHeight \div 2)
  \/ handleMouseLeave

SpecRates == Init /\ [][NextRates]_vars

\* C28: while the view shows a client, the current frame index is a frame
\* index of that client (0 <= index < numFrames) and the canvas has not been
\* replaced by the frame-index-out-of-range error.
C28_FrameIndexValid ==
  ratesCanvasShown(ratesLoading, ratesError, ratesClient) =>
    /\ currentFrameIndex \in 0..(ratesClient.numFrames - 1)
    /\ ratesCanvasError = NoError

\* C29: a tooltip that is shown carries the firing rate and the amplitude of
\* the hovered channel at the frame the view currently displays.
C29_TooltipOfDisplayedFrame ==
  (ratesCanvasElement /\ hoverInfo # NoHover) =>
    /\ hoverInfo.channelIndex \in 0..(ratesClient.numChannels - 1)
    /\ hoverInfo.firingRate =
         getFiringRatesForFrame(ratesClient, currentFrameIndex)[hoverInfo.channelIndex]
    /\ hoverInfo.amplitude =
         getAmplitudesForFrame(ratesClient, currentFrameIndex)[hoverInfo.channelIndex]

(***************************************************************************)
(* ClusterSeparationViewClient: one client per store.  clusterItems is the *)
(* #items field, clusterLoading the call of getItems or getItem(index)     *)
(* that found #items null and is between its first await and its return.   *)
(***************************************************************************)
\* the item the parse loop pushes for index i
separationItem(store, i) ==
  [ unit_id_1 |-> ToString(store.unit_ids_1[i + 1]),
    unit_id_2 |-> ToString(store.unit_ids_2[i + 1]),
    projections_1 |-> SubSeq(store.projections_1,
                             store.projection_starts_1[i + 1] + 1,
                             store.projection_starts_1[i + 2]),
    projections_2 |-> SubSeq(store.projections_2,
                             store.projection_starts_2[i + 1] + 1,
                             store.projection_starts_2[i + 2]) ]

\* #items after the parse loop has run for i < numItems
parsedItems(store) ==
  [i \in 1..store.attrs.num_items |-> separationItem(store, i - 1)]

\* what a call hands back once getItems has given it the list: getItems the
\* list itself, getItem(index) the entry or its range error
clusterReturn(id, index, items) ==
  IF index = NULL
    THEN [fn |-> "getItems", client |-> id, ok |-> TRUE, result |-> items]
  ELSE IF index < 0 \/ index >= Len(items)
    THEN [fn |-> "getItem", client |-> id, ok |-> FALSE, error |-> "Item index out of range"]
  ELSE [fn |-> "getItem", client |-> id, ok |-> TRUE, result |-> items[index + 1]]

\* the rejection of a call whose load failed
clusterThrow(id, index, err) ==
  [fn |-> IF index = NULL THEN "getItems" ELSE "getItem",
   client |-> id, ok |-> FALSE, error |-> err]

\* a call that finds #items null: it assigns the empty array and waits for
\* the first dataset
getItemsLoad(id, index) ==
  /\ clusterItems[id] = NoItems
  /\ clusterItems' = [clusterItems EXCEPT ![id] = [isNull |-> FALSE, items |-> <<>>]]
  /\ clusterLoading' = [clusterLoading EXCEPT ![id] = [active |-> TRUE, index |-> index]]
  /\ UNCHANGED lastCall
  /\ UNCHANGED <<now, viewVars, canvasVars, storeRequests, layoutVars, ratesVars>>

\* a call that finds #items not null returns the array as it is
getItemsCached(id, index) ==
  /\ clusterItems[id] # NoItems
  /\ lastCall' = clusterReturn(id, index, clusterItems[id].items)
  /\ UNCHANGED <<clusterItems, clusterLoading>>
  /\ UNCHANGED <<now, viewVars, canvasVars, storeRequests, layoutVars, ratesVars>>

\* the datasets and their data have arrived: the loading call throws when a
\* dataset is missing, and otherwise fills the array and returns it
getItemsLoaded(id) ==
  /\ clusterLoading[id].active
  /\ clusterLoading' = [clusterLoading EXCEPT ![id] = NoLoad]
  /\ LET store == ClusterStoreById(id)
         index == clusterLoading[id].index
     IN  IF ~(ClusterDatasets \subseteq store.datasets)
           THEN /\ lastCall' = clusterThrow(id, index, "Missing required datasets")
                /\ UNCHANGED clusterItems
           ELSE /\ clusterItems' =
                     [clusterItems EXCEPT ![id] =
                        [isNull |-> FALSE, items |-> parsedItems(store)]]
                /\ lastCall' = clusterReturn(id, index, parsedItems(store))
  /\ UNCHANGED <<now, viewVars, canvasVars, storeRequests, layoutVars, ratesVars>>

\* one of the awaited reads rejects: the loading call rejects with it
getItemsRejected(id) ==
  /\ clusterLoading[id].active
  /\ clusterLoading' = [clusterLoading EXCEPT ![id] = NoLoad]
  /\ lastCall' = clusterThrow(id, clusterLoading[id].index, "read rejected")
  /\ UNCHANGED clusterItems
  /\ UNCHANGED <<now, viewVars, canvasVars, storeRequests, layoutVars, ratesVars>>

NextCluster ==
  \/ \E id \in ClusterIds, index \in {NULL} \cup 0..2 : getItemsLoad(id, index)
  \/ \E id \in ClusterIds, index \in {NULL} \cup 0..2 : getItemsCached(id, index)
  \/ \E id \in ClusterIds : getItemsLoaded(id)
  \/ \E id \in ClusterIds : getItemsRejected(id)

SpecCluster == Init /\ [][NextCluster]_vars

\* C30: every call of getItems that returns successfully returns all
\* numItems items of its client, whether it overlaps a load in progress or
\* follows a load that failed.
C30_GetItemsAllOrNothing ==
  (lastCall.fn = "getItems" /\ lastCall.ok) =>
    Len(lastCall.result) = ClusterStoreById(lastCall.client).attrs.num_items

====
